---- MODULE Spec2Model ----
(***************************************************************************)
(* A model of the lox_rs pipeline (lox_lib): the Lexer (lexer.rs), the     *)
(* recursive-descent Parser (parser.rs), the AST and operator conversion   *)
(* (ast.rs) and the tree-walking evaluator (interpreter.rs).               *)
(*                                                                         *)
(* Characters are one-element strings, text is a sequence of characters.   *)
(* f32 values are modelled as fractions n/d in lowest terms; d = 0 stands  *)
(* for the IEEE specials (1/0 = inf, -1/0 = -inf, 0/0 = NaN).  Rounding    *)
(* and the sign of zero are not modelled.                                  *)
(***************************************************************************)
EXTENDS Integers, Sequences, FiniteSets, TLC

VARIABLES
    entry,       \* the operation the run was started with: see CallLex etc.
    pc,          \* the operation in progress, or how the run ended
    src,         \* Lexer::lex's argument `input`
    lines_left,  \* the lines of `input` that lex_chars has not seen yet
    line_number, \* the number of the last line handed to lex_chars
    nested,      \* the tokens collected so far (nested_tokens, flattened)
    lex_error,   \* the error lex returned, or NoError
    input,       \* Parser::parse's argument `tokens` as it was passed in
    tokens,      \* the pending token queue (`tokens` in parse/statement)
    statements,  \* parse's `statements` vector
    panic_mode,  \* Parser.panic_mode
    errors,      \* Parser.errors
    expr,        \* the ExprNode handed to the evaluator
    result,      \* what the evaluator returned
    token,       \* the Token handed to Operator::try_from
    operator     \* what Operator::try_from returned

vars == <<entry, pc, src, lines_left, line_number, nested, lex_error, input, tokens,
          statements, panic_mode, errors, expr, result, token, operator>>

----------------------------------------------------------------------------
(* f32 *)

Abs(i) == IF i < 0 THEN -i ELSE i

Sign(i) == IF i < 0 THEN -1 ELSE IF i = 0 THEN 0 ELSE 1

RECURSIVE Gcd(_, _)
Gcd(a, b) == IF b = 0 THEN a ELSE Gcd(b, a % b)

\* the fraction n/d in lowest terms with d >= 0
F32(n, d) ==
    IF d = 0 THEN [n |-> Sign(n), d |-> 0]
    ELSE LET g == Gcd(Abs(n), Abs(d))
         IN  [n |-> (Sign(d) * n) \div g, d |-> Abs(d) \div g]

NaN == [n |-> 0, d |-> 0]

IsNaN(a) == a.n = 0 /\ a.d = 0

F32Neg(a) == [n |-> -a.n, d |-> a.d]

F32Add(a, b) ==
    IF IsNaN(a) \/ IsNaN(b) THEN NaN
    ELSE IF a.d = 0 /\ b.d = 0 THEN (IF a.n = b.n THEN a ELSE NaN)
    ELSE IF a.d = 0 THEN a
    ELSE IF b.d = 0 THEN b
    ELSE F32(a.n * b.d + b.n * a.d, a.d * b.d)

F32Sub(a, b) == F32Add(a, F32Neg(b))

F32Mul(a, b) == F32(a.n * b.n, a.d * b.d)

\* a zero divisor is +0.0: x / 0 is infinite with the sign of x, 0 / 0 is NaN
F32Div(a, b) ==
    F32(a.n * b.d * (IF b.n < 0 THEN -1 ELSE 1), a.d * Abs(b.n))

F32Lt(a, b) ==
    IF IsNaN(a) \/ IsNaN(b) THEN FALSE
    ELSE IF a.d = 0 /\ b.d = 0 THEN a.n < b.n
    ELSE a.n * b.d < b.n * a.d

F32Gt(a, b) == F32Lt(b, a)

F32Eq(a, b) == ~IsNaN(a) /\ ~IsNaN(b) /\ a = b

----------------------------------------------------------------------------
(* ast.rs: Literal *)

NoText == << >>

Number(f) == [type |-> "Number", num |-> f, str |-> NoText, bool |-> FALSE]

String(s) == [type |-> "String", num |-> F32(0, 1), str |-> s, bool |-> FALSE]

Boolean(b) == [type |-> "Boolean", num |-> F32(0, 1), str |-> NoText, bool |-> b]

Nil == [type |-> "Nil", num |-> F32(0, 1), str |-> NoText, bool |-> FALSE]

\* String's PartialOrd: byte-wise lexicographic order; characters are
\* ordered by CharOrd
CharOrd(c) ==
    CASE c = " " -> 32 [] c = "!" -> 33 [] c = "\"" -> 34 [] c = "'" -> 39
      [] c = "(" -> 40 [] c = ")" -> 41 [] c = "*" -> 42 [] c = "+" -> 43
      [] c = "," -> 44 [] c = "-" -> 45 [] c = "." -> 46 [] c = "/" -> 47
      [] c = "0" -> 48 [] c = "1" -> 49 [] c = "2" -> 50 [] c = "3" -> 51
      [] c = ";" -> 59 [] c = "<" -> 60 [] c = "=" -> 61 [] c = ">" -> 62
      [] c = "@" -> 64 [] c = "_" -> 95 [] c = "a" -> 97 [] c = "b" -> 98
      [] c = "{" -> 123 [] c = "}" -> 125
      [] OTHER -> 200

RECURSIVE StrLt(_, _)
StrLt(a, b) ==
    IF b = << >> THEN FALSE
    ELSE IF a = << >> THEN TRUE
    ELSE IF Head(a) = Head(b) THEN StrLt(Tail(a), Tail(b))
    ELSE CharOrd(Head(a)) < CharOrd(Head(b))

is_falsy_Conventional(lit) ==
    CASE lit.type = "Number" -> FALSE
      [] lit.type = "String" -> FALSE
      [] lit.type = "Boolean" -> ~lit.bool
      [] lit.type = "Nil" -> TRUE

is_falsy(lit) ==
    CASE lit.type = "Number" -> TRUE
      [] lit.type = "String" -> TRUE
      [] lit.type = "Boolean" -> lit.bool
      [] lit.type = "Nil" -> FALSE

is_equal_NilFirst(a, b) ==
    CASE a.type = "Number" /\ b.type = "Number" -> F32Eq(a.num, b.num)
      [] a.type = "String" /\ b.type = "String" -> a.str = b.str
      [] a.type = "Boolean" /\ b.type = "Boolean" -> a.bool = b.bool
      [] a.type = "Nil" -> TRUE
      [] OTHER -> FALSE

is_equal(a, b) ==
    CASE a.type = "Number" /\ b.type = "Number" -> F32Eq(a.num, b.num)
      [] a.type = "String" /\ b.type = "String" -> a.str = b.str
      [] a.type = "Boolean" /\ b.type = "Boolean" -> a.bool = b.bool
      [] a.type = "Nil" /\ b.type = "Nil" -> TRUE
      [] OTHER -> FALSE

----------------------------------------------------------------------------
(* lexer.rs: TokenType and Token *)

TokenTypes ==
    {"LeftParen", "RightParen", "LeftBrace", "RightBrace", "Comma", "Dot",
     "Minus", "Plus", "Semicolon", "Slash", "Star",
     "Bang", "BangEqual", "Equal", "EqualEqual", "Greater", "GreaterEqual",
     "Less", "LessEqual",
     "Identifier", "String", "Number",
     "And", "Class", "Else", "False", "Fun", "For", "If", "Nil", "Or",
     "Print", "Return", "Super", "This", "True", "Var", "While",
     "Eof"}

\* Token::new(token_type, lexeme, line); String and Number carry a payload
Token(type, lexeme, line) ==
    [type |-> type, num |-> F32(0, 1), str |-> NoText, lexeme |-> lexeme,
     line |-> line]

StringToken(s, lexeme, line) ==
    [type |-> "String", num |-> F32(0, 1), str |-> s, lexeme |-> lexeme,
     line |-> line]

NumberToken(f, lexeme, line) ==
    [type |-> "Number", num |-> f, str |-> NoText, lexeme |-> lexeme,
     line |-> line]

----------------------------------------------------------------------------
(* ast.rs: Operator, ExprNode, StmtNode *)

Operators ==
    {"Add", "Subtract", "Multiply", "Divide", "GreaterThan", "LessThan",
     "Equal", "EqualEqual", "NotEqual", "And", "Or", "Bang"}

Op(name, line) == [op |-> name, line |-> line]

Ok(v) == [ok |-> TRUE, val |-> v]

Err(e) == [ok |-> FALSE, err |-> e]

\* `let x = call;` and then the rest of the body: the call is made once
\* and what it returned has a name from there on
Let(call, rest(_)) == CHOOSE out \in {rest(x) : x \in {call}} : TRUE

\* impl TryFrom<&Token> for Operator
try_from(t) ==
    LET line == t.line
    IN  CASE t.type = "Plus" -> Ok(Op("Add", line))
          [] t.type = "Minus" -> Ok(Op("Subtract", line))
          [] t.type = "Star" -> Ok(Op("Multiply", line))
          [] t.type = "Slash" -> Ok(Op("Divide", line))
          [] t.type = "Greater" -> Ok(Op("GreaterThan", line))
          [] t.type = "Less" -> Ok(Op("LessThan", line))
          [] t.type = "Equal" -> Ok(Op("Equal", line))
          [] t.type = "BangEqual" -> Ok(Op("NotEqual", line))
          [] t.type = "And" -> Ok(Op("And", line))
          [] t.type = "Or" -> Ok(Op("Or", line))
          [] t.type = "Bang" -> Ok(Op("Bang", line))
          [] t.type = "EqualEqual" -> Ok(Op("EqualEqual", line))
          [] t.type = "GreaterEqual" -> Ok(Op("GreaterThan", line))
          [] t.type = "LessEqual" -> Ok(Op("LessThan", line))
          [] OTHER -> Err(<<t.type, " is not an operator">>)

Literal(lit) == [kind |-> "Literal", lit |-> lit]

Grouping(e) == [kind |-> "Grouping", expr |-> e]

UnaryExpr(o, r) == [kind |-> "UnaryExpr", operator |-> o, right |-> r]

BinaryExpr(l, o, r) ==
    [kind |-> "BinaryExpr", left |-> l, operator |-> o, right |-> r]

PrintStmt(e) == [kind |-> "PrintStmt", expr |-> e]

ExprStmt(e) == [kind |-> "ExprStmt", expr |-> e]

ErrStmt(m) == [kind |-> "ErrStmt", msg |-> m]

VarStmt(name) == [kind |-> "VarStmt", name |-> name]

----------------------------------------------------------------------------
(* parser.rs *)

\* `{:?}` of a TokenType and of a Token, as message fragments
DebugTokenType(t) ==
    CASE t.type = "Number" ->
           <<"Number(", ToString(t.num.n), "/", ToString(t.num.d), ")">>
      [] t.type = "String" -> <<"String(">> \o t.str \o <<")">>
      [] OTHER -> <<t.type>>

DebugToken(t) ==
    <<"Token { token_type: ">> \o DebugTokenType(t)
        \o <<", line: ", ToString(t.line), ", lexeme: ">> \o t.lexeme \o <<" }">>

\* Parser::new
NewParser == [panic_mode |-> FALSE, errors |-> << >>]

\* send_err that records nothing
send_err_Dropped(st, message) == st

\* Parser::send_err
send_err(st, message) == [st EXCEPT !.errors = Append(@, message)]

\* What a parsing function hands back: Ok(node) or Err(message), with the
\* token queue and the Parser as the call left them; or a Rust panic.
ParseOk(node, toks, st) ==
    [status |-> "ok", node |-> node, tokens |-> toks, st |-> st]

ParseErr(msg, toks, st) ==
    [status |-> "err", msg |-> msg, tokens |-> toks, st |-> st]

Panicked(msg) == [status |-> "panic", msg |-> msg]

\* Parser::match_token
match_token(token_type, t) == t.type = token_type

\* Parser::consume
consume_KeepsToken(expected_token, toks) ==
    IF toks = << >> THEN Panicked(<<"Expected token in fn consume">>)
    ELSE IF match_token(expected_token, Head(toks))
         THEN [status |-> "ok", tokens |-> toks]
         ELSE [status |-> "err", tokens |-> toks,
               msg |-> <<"Expected token ", expected_token, " but got ">>
                          \o DebugTokenType(Head(toks)) \o <<" token">>]

consume(expected_token, toks) ==
    IF toks = << >> THEN Panicked(<<"Expected token in fn consume">>)
    ELSE IF match_token(expected_token, Head(toks))
         THEN [status |-> "ok", tokens |-> Tail(toks)]
         ELSE [status |-> "err", tokens |-> toks,
               msg |-> <<"Expected token ", expected_token, " but got ">>
                          \o DebugTokenType(Head(toks)) \o <<" token">>]

\* match_operator_tokens: `out = Some(Operator::try_from(token).unwrap())`
Unwrapped(converted, toks) ==
    IF converted.ok
    THEN [status |-> "some", operator |-> converted.val, tokens |-> Tail(toks)]
    ELSE Panicked(<<"called Result::unwrap() on an Err value">>)

\* Parser::match_operator_tokens
match_operator_tokens(match_tokens, toks) ==
    IF toks # << >> /\ Head(toks).type \in match_tokens
    THEN Unwrapped(try_from(Head(toks)), toks)
    ELSE [status |-> "none", tokens |-> toks]

IsLiteralToken(t) == t.type \in {"Number", "String", "False", "True", "Nil"}

LiteralOfToken(t) ==
    CASE t.type = "Number" -> Literal(Number(t.num))
      [] t.type = "String" -> Literal(String(t.str))
      [] t.type = "False" -> Literal(Boolean(FALSE))
      [] t.type = "True" -> Literal(Boolean(TRUE))
      [] t.type = "Nil" -> Literal(Nil)

RECURSIVE expression(_, _)
RECURSIVE binary_expression_loop(_, _, _, _, _)
RECURSIVE precedence_fn(_, _, _)
RECURSIVE unary(_, _)
RECURSIVE match_literals(_, _)

\* the tail of match_literals with the unsupported token removed
UnsupportedToken_Skipped(toks, st) ==
    ParseErr(<<"unsupported token ">> \o DebugTokenType(Head(toks))
                 \o <<" in expression">>,
             Tail(toks),
             send_err([st EXCEPT !.panic_mode = TRUE],
                      <<"an unsupported token was found! Some(">>
                          \o DebugToken(Head(toks)) \o <<")">>))

\* the tail of match_literals: the token is neither a literal nor the start
\* of a well-formed group
UnsupportedToken(toks, st) ==
    ParseErr(<<"unsupported token ">> \o DebugTokenType(Head(toks))
                 \o <<" in expression">>,
             toks,
             send_err([st EXCEPT !.panic_mode = TRUE],
                      <<"an unsupported token was found! Some(">>
                          \o DebugToken(Head(toks)) \o <<")">>))

\* match_literals after `let expr = self.expression(tokens)?`
CloseGroup(inner) ==
    IF inner.status # "ok" THEN inner
    ELSE IF inner.tokens = << >> THEN Panicked(<<"index out of bounds">>)
    ELSE IF Head(inner.tokens).type = "RightParen"
    THEN ParseOk(Grouping(inner.node), Tail(inner.tokens), inner.st)
    ELSE UnsupportedToken(
             inner.tokens,
             send_err([inner.st EXCEPT !.panic_mode = TRUE],
                      <<"Expected ')' after expression">>))

\* Parser::match_literals
match_literals(toks, st) ==
    IF toks # << >> /\ IsLiteralToken(Head(toks))
    THEN ParseOk(LiteralOfToken(Head(toks)), Tail(toks), st)
    ELSE IF toks = << >> THEN Panicked(<<"index out of bounds">>)
    ELSE IF Head(toks).type = "LeftParen"
    THEN Let(expression(Tail(toks), st), CloseGroup)
    ELSE UnsupportedToken(toks, st)

\* Parser::primary
primary(toks, st) == match_literals(toks, st)

\* unary after `let right = self.unary(tokens)?`
WrapUnary(o, right) ==
    IF right.status # "ok" THEN right
    ELSE ParseOk(UnaryExpr(o, right.node), right.tokens, right.st)

\* unary after match_operator_tokens
UnaryMatched(m, toks, st) ==
    IF m.status = "panic" THEN m
    ELSE IF m.status = "some"
    THEN Let(unary(m.tokens, st), LAMBDA right : WrapUnary(m.operator, right))
    ELSE primary(toks, st)

\* Parser::unary
unary(toks, st) ==
    Let(match_operator_tokens({"Bang", "Minus"}, toks),
        LAMBDA m : UnaryMatched(m, toks, st))

\* the loop body after `let right = precedence_fn(self, tokens)?`: the node
\* built so far becomes `left`
FoldRight_NodeOnTheRight(fn, token_types, node, o, right) ==
    IF right.status # "ok" THEN right
    ELSE Let(BinaryExpr(right.node, o, node),
             LAMBDA left : binary_expression_loop(fn, token_types, left,
                                                  right.tokens, right.st))

FoldRight(fn, token_types, node, o, right) ==
    IF right.status # "ok" THEN right
    ELSE Let(BinaryExpr(node, o, right.node),
             LAMBDA left : binary_expression_loop(fn, token_types, left,
                                                  right.tokens, right.st))

\* the loop's condition `let Some(operator) = self.match_operator_tokens(..)`
LoopMatched(fn, token_types, node, toks, st, m) ==
    IF m.status = "panic" THEN m
    ELSE IF m.status = "none" THEN ParseOk(node, toks, st)
    ELSE Let(precedence_fn(fn, m.tokens, st),
             LAMBDA right : FoldRight(fn, token_types, node, m.operator, right))

\* the `while let Some(operator) = ...` loop of binary_expression_match
binary_expression_loop(fn, token_types, node, toks, st) ==
    Let(match_operator_tokens(token_types, toks),
        LAMBDA m : LoopMatched(fn, token_types, node, toks, st, m))

\* binary_expression_match after `let mut node = precedence_fn(self, tokens)?`
FirstOperand(fn, token_types, first) ==
    IF first.status # "ok" THEN first
    ELSE binary_expression_loop(fn, token_types, first.node, first.tokens,
                                first.st)

\* Parser::binary_expression_match
binary_expression_match(fn, token_types, toks, st) ==
    Let(precedence_fn(fn, toks, st),
        LAMBDA first : FirstOperand(fn, token_types, first))

\* Parser::factor
factor_WithTermOperators(toks, st) ==
    binary_expression_match("unary", {"Star", "Slash", "Plus", "Minus"},
                            toks, st)

factor(toks, st) ==
    binary_expression_match("unary", {"Star", "Slash"}, toks, st)

\* Parser::term
term(toks, st) ==
    binary_expression_match("factor", {"Plus", "Minus"}, toks, st)

\* Parser::comparison
comparison(toks, st) ==
    binary_expression_match(
        "term", {"Less", "Greater", "LessEqual", "GreaterEqual"}, toks, st)

\* equality that takes `=` for one of its operators
equality_WithAssignment(toks, st) ==
    binary_expression_match(
        "comparison", {"BangEqual", "EqualEqual", "Equal"}, toks, st)

\* Parser::equality
equality(toks, st) ==
    binary_expression_match(
        "comparison", {"BangEqual", "EqualEqual"}, toks, st)

\* a call through a ParserBinaryFn function pointer
precedence_fn(fn, toks, st) ==
    CASE fn = "comparison" -> comparison(toks, st)
      [] fn = "term" -> term(toks, st)
      [] fn = "factor" -> factor(toks, st)
      [] fn = "unary" -> unary(toks, st)

\* Parser::expression
expression(toks, st) == equality(toks, st)

\* What Parser::statement hands back: the StmtNode, with the queue and the
\* Parser as the call left them
Returned(stmt, toks, st) ==
    [status |-> "ok", stmt |-> stmt, tokens |-> toks, st |-> st]

\* print_stmt with the message of the expression statement
PrintConsumed_ExpressionMessage(e, c) ==
    CASE c.status = "panic" -> c
      [] c.status = "ok" -> ParseOk(PrintStmt(e.node), c.tokens, e.st)
      [] c.status = "err" ->
           ParseErr(<<"Expected ';' after an expression">>, c.tokens, e.st)

\* print_stmt after `Parser::consume(TokenType::Semicolon, tokens)`
PrintConsumed(e, c) ==
    CASE c.status = "panic" -> c
      [] c.status = "ok" -> ParseOk(PrintStmt(e.node), c.tokens, e.st)
      [] c.status = "err" ->
           ParseErr(<<"Expected ';' after a statement">>, c.tokens, e.st)

\* print_stmt after `let expr = self.expression(tokens)?`
PrintExpression(e) ==
    IF e.status # "ok" THEN e
    ELSE Let(consume("Semicolon", e.tokens), LAMBDA c : PrintConsumed(e, c))

\* Parser::print_stmt
print_stmt(toks, st) == Let(expression(Tail(toks), st), PrintExpression)

\* statement: `match self.print_stmt(tokens)`
PrintStatement(p) ==
    CASE p.status = "panic" -> p
      [] p.status = "ok" -> Returned(p.node, p.tokens, p.st)
      [] p.status = "err" -> Returned(ErrStmt(p.msg), p.tokens, p.st)

\* statement: `match Parser::consume(TokenType::Semicolon, tokens)`
ExpressionConsumed(e, c) ==
    CASE c.status = "panic" -> c
      [] c.status = "ok" -> Returned(ExprStmt(e.node), c.tokens, e.st)
      [] c.status = "err" ->
           Returned(ErrStmt(<<"Expected ';' after an expression">>),
                    c.tokens, e.st)

\* statement: `match self.expression(tokens)`
ExpressionStatement(e) ==
    CASE e.status = "panic" -> e
      [] e.status = "err" -> Returned(ErrStmt(e.msg), e.tokens, e.st)
      [] e.status = "ok" ->
           Let(consume("Semicolon", e.tokens),
               LAMBDA c : ExpressionConsumed(e, c))

\* Parser::statement
statement(toks, st) ==
    IF toks = << >> THEN Panicked(<<"No tokens in statement">>)
    ELSE IF match_token("Print", Head(toks))
    THEN Let(print_stmt(toks, st), PrintStatement)
    ELSE Let(expression(toks, st), ExpressionStatement)

----------------------------------------------------------------------------
(* interpreter.rs *)

\* `{}` of an f32, as message fragments
DisplayF32(f) == <<ToString(f.n), "/", ToString(f.d)>>

\* Interpreter::report, Interpreter::error
report(line, err_where, message) ==
    <<"[line ", ToString(line), "] Error ", err_where, ": ">> \o message

error(line, message) == report(line, "", message)

Value(lit) == [status |-> "ok", val |-> lit]

RuntimeErr(msg) == [status |-> "err", msg |-> msg]

\* Interpreter::add_impl
add_impl_Swapped(left, right, line) ==
    CASE left.type = "Number" /\ right.type = "Number" ->
           Value(Number(F32Add(left.num, right.num)))
      [] left.type = "String" /\ right.type = "String" ->
           Value(String(right.str \o left.str))
      [] OTHER -> RuntimeErr(error(line, <<"mismatch">>))

add_impl_LineDropped(left, right, line) ==
    CASE left.type = "Number" /\ right.type = "Number" ->
           Value(Number(F32Add(left.num, right.num)))
      [] left.type = "String" /\ right.type = "String" ->
           Value(String(left.str \o right.str))
      [] OTHER ->
           RuntimeErr(<<"Operands must be two numbers or two strings">>)

add_impl(left, right, line) ==
    CASE left.type = "Number" /\ right.type = "Number" ->
           Value(Number(F32Add(left.num, right.num)))
      [] left.type = "String" /\ right.type = "String" ->
           Value(String(left.str \o right.str))
      [] left.type = "Number" ->
           RuntimeErr(error(line,
               <<"the left side number ">> \o DisplayF32(left.num)
                   \o <<" operand is being added to non left number">>))
      [] left.type = "String" ->
           RuntimeErr(error(line,
               <<"the left side string ">> \o left.str
                   \o <<" operand is being added to non left number">>))
      [] OTHER ->
           RuntimeErr(error(line,
               <<"Operands must be two numbers or two strings">>))

BothNumbers_LeftOnly(l, r) == l.type = "Number"

BothNumbers(l, r) == l.type = "Number" /\ r.type = "Number"

BothStrings(l, r) == l.type = "String" /\ r.type = "String"

\* the `match operator` of visit_binary_expr, operands already evaluated
apply_binary(l, o, r) ==
    CASE o.op = "Add" -> add_impl(l, r, o.line)
      [] o.op = "Subtract" ->
           IF BothNumbers(l, r) THEN Value(Number(F32Sub(l.num, r.num)))
           ELSE RuntimeErr(error(o.line, <<"Operands must be two numbers">>))
      [] o.op = "Multiply" ->
           IF BothNumbers(l, r) THEN Value(Number(F32Mul(l.num, r.num)))
           ELSE RuntimeErr(error(o.line, <<"Operands must be two numbers">>))
      [] o.op = "Divide" ->
           IF BothNumbers(l, r) THEN Value(Number(F32Div(l.num, r.num)))
           ELSE RuntimeErr(error(o.line, <<"Operands must be two numbers">>))
      [] o.op = "GreaterThan" ->
           IF BothNumbers(l, r) THEN Value(Boolean(F32Gt(l.num, r.num)))
           ELSE IF BothStrings(l, r) THEN Value(Boolean(StrLt(r.str, l.str)))
           ELSE RuntimeErr(error(o.line,
                    <<"Operands must be two numbers or two strings">>))
      [] o.op = "LessThan" ->
           IF BothNumbers(l, r) THEN Value(Boolean(F32Lt(l.num, r.num)))
           ELSE IF BothStrings(l, r) THEN Value(Boolean(StrLt(l.str, r.str)))
           ELSE RuntimeErr(error(o.line,
                    <<"Operands must be two numbers or two strings">>))
      [] o.op = "Equal" -> Panicked(<<"not yet implemented: only expressions are supported!">>)
      [] o.op = "EqualEqual" -> Value(Boolean(is_equal(l, r)))
      [] o.op = "NotEqual" -> Value(Boolean(~is_equal(l, r)))
      [] o.op = "And" -> Panicked(<<"not yet implemented: only expressions are supported!">>)
      [] o.op = "Or" -> Panicked(<<"not yet implemented: only expressions are supported!">>)
      [] OTHER -> RuntimeErr(<<"Unsupported operator">>)

\* the `match operator` of visit_unary_expr, operand already evaluated
apply_unary(o, output) ==
    CASE o.op = "Bang" -> Value(Boolean(~is_falsy(output)))
      [] o.op = "Subtract" ->
           IF output.type = "Number" THEN Value(Number(F32Neg(output.num)))
           ELSE RuntimeErr(
                    <<"Unary operator '-' can only be applied to numbers on line ",
                      ToString(o.line)>>)
      [] OTHER ->
           RuntimeErr(<<"Unexpected operator of type ", o.op, " { line: ",
                        ToString(o.line), " } in an Unary expression. Only">>)

RECURSIVE visit_expr_node(_)

\* visit_literal
visit_literal(literal) == Value(literal)

\* visit_grouping
visit_grouping(grouping) == visit_expr_node(grouping)

\* visit_binary_expr
visit_binary_expr(left, o, right) ==
    LET left_literal == visit_expr_node(left)
    IN  IF left_literal.status # "ok" THEN left_literal
        ELSE LET right_literal == visit_expr_node(right)
             IN  IF right_literal.status # "ok" THEN right_literal
                 ELSE apply_binary(left_literal.val, o, right_literal.val)

\* visit_unary_expr
visit_unary_expr(o, child) ==
    LET output == visit_expr_node(child)
    IN  IF output.status # "ok" THEN output
        ELSE apply_unary(o, output.val)

\* ExprVisitor::visit_expr_node
visit_expr_node(node) ==
    CASE node.kind = "Literal" -> visit_literal(node.lit)
      [] node.kind = "Grouping" -> visit_grouping(node.expr)
      [] node.kind = "UnaryExpr" -> visit_unary_expr(node.operator, node.right)
      [] node.kind = "BinaryExpr" ->
           visit_binary_expr(node.left, node.operator, node.right)

----------------------------------------------------------------------------
(* lexer.rs *)

AsciiDigits == {"0", "1", "2", "3", "4", "5", "6", "7", "8", "9"}

\* "U+00BD" (the fraction one half) stands for the characters that
\* char::is_numeric accepts and that are no decimal digit
is_numeric(c) == c \in AsciiDigits \cup {"U+00BD"}

is_alphabetic(c) ==
    c \in {"a", "b", "c", "d", "e", "f", "g", "h", "i", "j", "k", "l", "m",
           "n", "o", "p", "q", "r", "s", "t", "u", "v", "w", "x", "y", "z"}

is_alphanumeric(c) == is_alphabetic(c) \/ is_numeric(c)

\* RESERVED_KEYWORDS
RESERVED_KEYWORDS ==
    {[text |-> <<"f", "u", "n">>, type |-> "Fun"],
     [text |-> <<"v", "a", "r">>, type |-> "Var"],
     [text |-> <<"i", "f">>, type |-> "If"],
     [text |-> <<"e", "l", "s", "e">>, type |-> "Else"],
     [text |-> <<"r", "e", "t", "u", "r", "n">>, type |-> "Return"],
     [text |-> <<"t", "r", "u", "e">>, type |-> "True"],
     [text |-> <<"f", "a", "l", "s", "e">>, type |-> "False"],
     [text |-> <<"a", "n", "d">>, type |-> "And"],
     [text |-> <<"o", "r">>, type |-> "Or"],
     [text |-> <<"n", "i", "l">>, type |-> "Nil"],
     [text |-> <<"f", "o", "r">>, type |-> "For"],
     [text |-> <<"s", "u", "p", "e", "r">>, type |-> "Super"],
     [text |-> <<"c", "l", "a", "s", "s">>, type |-> "Class"],
     [text |-> <<"t", "h", "i", "s">>, type |-> "This"],
     [text |-> <<"w", "h", "i", "l", "e">>, type |-> "While"],
     [text |-> <<"p", "r", "i", "n", "t">>, type |-> "Print"]}

LexicalError_LineZero(kind, text, line) == [kind |-> kind, text |-> text, line |-> 0]

\* Lexer::lexical_error; the kind names the message the code formats
LexicalError(kind, text, line) == [kind |-> kind, text |-> text, line |-> line]

LexOk(toks) == [status |-> "ok", tokens |-> toks]

LexErr(e) == [status |-> "err", err |-> e]

\* one literal lexed: the token and the characters left in `peek`
Lexed(t, rest) == [status |-> "ok", token |-> t, rest |-> rest]

DigitValue(c) ==
    CASE c = "0" -> 0 [] c = "1" -> 1 [] c = "2" -> 2 [] c = "3" -> 3
      [] c = "4" -> 4 [] c = "5" -> 5 [] c = "6" -> 6 [] c = "7" -> 7
      [] c = "8" -> 8 [] c = "9" -> 9

RECURSIVE Pow10(_)
Pow10(k) == IF k = 0 THEN 1 ELSE 10 * Pow10(k - 1)

RECURSIVE DigitsValue(_)
DigitsValue(ds) ==
    IF ds = << >> THEN 0
    ELSE 10 * DigitsValue(SubSeq(ds, 1, Len(ds) - 1)) + DigitValue(ds[Len(ds)])

\* str::parse::<f32> on text made of numeric characters and dots: decimal
\* digits with at most one dot and at least one digit
parse_f32(val) ==
    LET dots == {i \in 1..Len(val) : val[i] = "."}
        digits == SelectSeq(val, LAMBDA c : c \in AsciiDigits)
    IN  IF /\ \A i \in 1..Len(val) : val[i] \in AsciiDigits \cup {"."}
           /\ Cardinality(dots) <= 1
           /\ digits # << >>
        THEN LET frac == IF dots = {} THEN 0
                         ELSE Len(val) - (CHOOSE i \in dots : TRUE)
             IN  Ok(F32(DigitsValue(digits), Pow10(frac)))
        ELSE Err(<<"invalid float literal">>)

RECURSIVE lex_string_literals_loop(_, _, _, _)
\* one turn of the `while let Some(char) = peek.next()` loop
lex_string_literals_turn(lexeme, val, peek, line) ==
    IF peek = << >>
    THEN LexErr(LexicalError("UnterminatedString", val, line))
    ELSE IF Head(peek) = "\"" \/ Head(peek) = "'"
    THEN Lexed(StringToken(val, lexeme \o val \o <<Head(peek)>>, line),
               Tail(peek))
    ELSE lex_string_literals_loop(lexeme, Append(val, Head(peek)),
                                  Tail(peek), line)

lex_string_literals_loop(lexeme, val, peek, line) ==
    Let(<<val, peek>>,
        LAMBDA now : lex_string_literals_turn(lexeme, now[1], now[2], line))

\* Lexer::lex_string_literals
lex_string_literals(lexeme, peek, line) ==
    lex_string_literals_loop(lexeme, << >>, peek, line)

\* the loop is left at a character that is no part of a number:
\* `val.parse::<f32>().unwrap()`
NumberUnwrapped(parsed, val, peek, line) ==
    IF parsed.ok THEN Lexed(NumberToken(parsed.val, val, line), peek)
    ELSE Panicked(<<"called Result::unwrap() on an Err value">>)

\* the line ends with the number: `match val.parse::<f32>()`
NumberMatched(parsed, val, peek, line) ==
    IF parsed.ok THEN Lexed(NumberToken(parsed.val, val, line), peek)
    ELSE LexErr(LexicalError("InvalidNumber", val, line))

RECURSIVE lex_number_literals_loop(_, _, _)
\* one turn of the `while let Some(next_char) = peek.peek()` loop
lex_number_literals_turn(val, peek, line) ==
    IF peek = << >>
    THEN Let(parse_f32(val), LAMBDA parsed : NumberMatched(parsed, val, peek, line))
    ELSE IF ~is_numeric(Head(peek)) /\ Head(peek) # "."
    THEN Let(parse_f32(val), LAMBDA parsed : NumberUnwrapped(parsed, val, peek, line))
    ELSE lex_number_literals_loop(Append(val, Head(peek)), Tail(peek), line)

lex_number_literals_loop(val, peek, line) ==
    Let(<<val, peek>>,
        LAMBDA now : lex_number_literals_turn(now[1], now[2], line))

\* Lexer::lex_number_literals
lex_number_literals(lexeme, peek, line) ==
    lex_number_literals_loop(lexeme, peek, line)

\* the closure check_keyword of lex_identifier_literals
check_keyword(val, line) ==
    IF \E k \in RESERVED_KEYWORDS : k.text = val
    THEN Token((CHOOSE k \in RESERVED_KEYWORDS : k.text = val).type, val, line)
    ELSE Token("Identifier", val, line)

RECURSIVE lex_identifier_literals_loop(_, _, _)
\* one turn of the `while let Some(next_char) = peek.peek()` loop
lex_identifier_literals_turn(val, peek, line) ==
    IF peek # << >> /\ (is_alphanumeric(Head(peek)) \/ Head(peek) = "_")
    THEN lex_identifier_literals_loop(Append(val, Head(peek)), Tail(peek), line)
    ELSE Lexed(check_keyword(val, line), peek)

lex_identifier_literals_loop(val, peek, line) ==
    Let(<<val, peek>>,
        LAMBDA now : lex_identifier_literals_turn(now[1], now[2], line))

\* Lexer::lex_identifier_literals
lex_identifier_literals(lexeme, peek, line) ==
    lex_identifier_literals_loop(lexeme, peek, line)

SingleCharacterTokens ==
    {[c |-> "(", type |-> "LeftParen"], [c |-> ")", type |-> "RightParen"],
     [c |-> "{", type |-> "LeftBrace"], [c |-> "}", type |-> "RightBrace"],
     [c |-> ",", type |-> "Comma"], [c |-> ".", type |-> "Dot"],
     [c |-> "-", type |-> "Minus"], [c |-> "+", type |-> "Plus"],
     [c |-> ";", type |-> "Semicolon"], [c |-> "*", type |-> "Star"]}

OneOrTwoCharacterTokens_GreaterAlone ==
    {[c |-> "!", one |-> "Bang", two |-> "BangEqual"],
     [c |-> "=", one |-> "Equal", two |-> "EqualEqual"],
     [c |-> ">", one |-> "Greater", two |-> "Greater"],
     [c |-> "<", one |-> "Less", two |-> "LessEqual"]}

OneOrTwoCharacterTokens ==
    {[c |-> "!", one |-> "Bang", two |-> "BangEqual"],
     [c |-> "=", one |-> "Equal", two |-> "EqualEqual"],
     [c |-> ">", one |-> "Greater", two |-> "GreaterEqual"],
     [c |-> "<", one |-> "Less", two |-> "LessEqual"]}

RECURSIVE lex_chars_loop(_, _, _)

\* lex_chars after a literal was lexed: `?` and `tokens.push(literal)`
PushLiteral(literal, line, toks) ==
    IF literal.status = "ok"
    THEN lex_chars_loop(literal.rest, line, Append(toks, literal.token))
    ELSE literal

SkipComment_TokensDropped(peek, line, toks) == lex_chars_loop(<< >>, line, << >>)

\* `//`: the characters left in `peek` are consumed, no token is pushed,
\* `continue`
SkipComment(peek, line, toks) == lex_chars_loop(<< >>, line, toks)

\* one turn of the `while let Some(char) = peek.next()` loop of lex_chars:
\* `peek` is what the iterator still holds, `toks` the tokens pushed so far
lex_chars_turn(peek, line, toks) ==
    IF peek = << >> THEN LexOk(toks)
    ELSE
    LET char == Head(peek)
        rest == Tail(peek)
        lexeme == <<char>>
        next_is(c) == rest # << >> /\ Head(rest) = c
    IN  IF \E s \in SingleCharacterTokens : s.c = char
        THEN LET s == CHOOSE s \in SingleCharacterTokens : s.c = char
             IN  lex_chars_loop(rest, line, Append(toks, Token(s.type, lexeme, line)))
        ELSE IF char = "/"
        THEN IF next_is("/")
             THEN SkipComment(rest, line, toks)
             ELSE lex_chars_loop(rest, line, Append(toks, Token("Slash", lexeme, line)))
        ELSE IF \E s \in OneOrTwoCharacterTokens : s.c = char
        THEN LET s == CHOOSE s \in OneOrTwoCharacterTokens : s.c = char
             IN  IF next_is("=")
                 THEN lex_chars_loop(Tail(rest), line,
                          Append(toks, Token(s.two, <<char, "=">>, line)))
                 ELSE lex_chars_loop(rest, line,
                          Append(toks, Token(s.one, lexeme, line)))
        ELSE IF char = " " \/ char = "\r" \/ char = "\t"
        THEN lex_chars_loop(rest, line, toks)
        ELSE IF char = "'" \/ char = "\"" \/ is_numeric(char) \/ is_alphabetic(char)
        THEN Let(IF char = "'" \/ char = "\""
                 THEN lex_string_literals(lexeme, rest, line)
                 ELSE IF is_numeric(char)
                 THEN lex_number_literals(lexeme, rest, line)
                 ELSE lex_identifier_literals(lexeme, rest, line),
                 LAMBDA literal : PushLiteral(literal, line, toks))
        ELSE LexErr(LexicalError("UnexpectedCharacter", lexeme, line))

lex_chars_loop(peek, line, toks) ==
    Let(<<peek, toks>>, LAMBDA now : lex_chars_turn(now[1], line, now[2]))

\* Lexer::lex_chars
lex_chars(word, line) == lex_chars_loop(word, line, << >>)

\* str::lines: split at "\n", a "\r" right before the "\n" is dropped; the
\* text after the last "\n" is a line unless it is empty
RECURSIVE SplitLines(_, _)
SplitLines(text, current) ==
    IF text = << >>
    THEN IF current = << >> THEN << >> ELSE <<current>>
    ELSE IF Head(text) = "\n"
    THEN LET line == IF current # << >> /\ current[Len(current)] = "\r"
                     THEN SubSeq(current, 1, Len(current) - 1)
                     ELSE current
         IN  <<line>> \o SplitLines(Tail(text), << >>)
    ELSE SplitLines(Tail(text), Append(current, Head(text)))

Lines_BlankDropped(text) ==
    SelectSeq(SplitLines(text, << >>), LAMBDA line : line # << >>)

Lines(text) == SplitLines(text, << >>)

\* the end of Lexer::lex: the Eof token is pushed
lex_finish_NoEof(toks) == toks

lex_finish_LineZero(toks) == Append(toks, Token("Eof", << >>, 0))

lex_finish(toks) ==
    LET final_line == IF toks # << >> THEN toks[Len(toks)].line ELSE 0
    IN  Append(toks, Token("Eof", << >>, final_line))

----------------------------------------------------------------------------
(* Bounds and inputs *)

MaxSrcLen == 4

MaxTokens == 3

MaxChain == 3

MaxStatements == 3

MaxLine == 2

\* the source characters lex is run on
SrcAlphabet == {"1", ".", "a", "+", "/", "=", "\"", " ", "\n", "@"}

SeqsUpTo(S, n) == UNION {[1..k -> S] : k \in 0..n}

\* the source text of the interpreter tests
ArithSources ==
    {<<"1", " ", "+", " ", "2">>,
     <<"1", " ", "-", " ", "2">>,
     <<"1", " ", "+", " ", "2", " ", "-", " ", "3">>,
     <<"1", " ", "*", " ", "2">>,
     <<"1", " ", "/", " ", "2">>,
     <<"1", " ", "*", " ", "2", " ", "/", " ", "3">>,
     <<"1", " ", "+", "(", "2", " ", "*", " ", "3", ")">>,
     <<"(", "1", " ", "+", " ", "2", ")", " ", "*", " ", "3">>,
     <<"3", " ", "*", " ", "(", "1", " ", "+", " ", "2", ")">>,
     <<"1", "+", "2", "*", "3">>,
     <<"2", "-", "1", "-", "1">>}

\* texts with both quote characters
QuoteSources == SeqsUpTo({"\"", "'", "a", " "}, MaxSrcLen)

\* texts with a numeric character that is no decimal digit
NumericSources == SeqsUpTo({"U+00BD", "1", " "}, MaxSrcLen)

\* texts of the one-or-two-character operators, without whitespace
OperatorSources == SeqsUpTo({"!", "=", ">", "<", "a"}, MaxSrcLen)

Sources ==
    SeqsUpTo(SrcAlphabet, MaxSrcLen) \cup ArithSources \cup QuoteSources
        \cup NumericSources \cup OperatorSources

\* token kinds the parser is run on (the line is set by WithLines)
NumberKind(k) == NumberToken(F32(k, 1), <<ToString(k)>>, 0)

Kind(type) == Token(type, <<type>>, 0)

LiteralKinds ==
    {NumberKind(1), StringToken(<<"a">>, <<"\"", "a", "\"">>, 0), Kind("Nil")}

UnaryKinds == {Kind("Bang"), Kind("Minus")}

BinaryKinds ==
    {Kind(t) : t \in {"BangEqual", "EqualEqual", "Less", "Greater", "LessEqual",
                      "GreaterEqual", "Plus", "Minus", "Star", "Slash"}}

TokenKinds ==
    {NumberKind(1), Kind("Nil"), Kind("Minus"), Kind("Star"),
     Kind("GreaterEqual"), Kind("EqualEqual"), Kind("Bang"),
     Kind("LeftParen"), Kind("RightParen"), Kind("Semicolon"), Kind("Print"),
     Kind("Var"), Kind("Eof")}

\* the i-th token of a hand-built vector is on line i
WithLines(kinds) == [i \in 1..Len(kinds) |-> [kinds[i] EXCEPT !.line = i]]

\* x1 op1 x2 ... opk x(k+1) ; with the operands 1, 2, ...: one token
\* vector for every choice of the k operators
Chain(ops) ==
    [i \in 1..(2 * Len(ops) + 2) |->
        IF i = 2 * Len(ops) + 2 THEN Kind("Semicolon")
        ELSE IF i % 2 = 1 THEN NumberKind((i + 1) \div 2)
        ELSE ops[i \div 2]]

ChainInputs == {Chain(ops) : ops \in SeqsUpTo(BinaryKinds, MaxChain)}

\* [u] x1 op1 [u] x2 op2 [u] x3 ; with an optional unary operator before
\* each operand
UnaryChainInputs ==
    LET Prefix == {<< >>} \cup {<<u>> : u \in UnaryKinds}
    IN  {u1 \o <<NumberKind(1), op1>> \o u2 \o <<NumberKind(2), op2>> \o u3
            \o <<NumberKind(3), Kind("Semicolon")>> :
         u1 \in Prefix, u2 \in Prefix, u3 \in Prefix,
         op1 \in BinaryKinds, op2 \in BinaryKinds}

\* statements as the lexer would hand them over and as the parser tests
\* build them: print, groups, an Eof at the end
StatementInputs ==
    LET Group(e) == <<Kind("LeftParen")>> \o e \o <<Kind("RightParen")>>
        Sum == <<NumberKind(1), Kind("Plus"), NumberKind(2)>>
        Es == {<<l>> : l \in LiteralKinds} \cup {Sum, Group(Sum),
               Group(Sum) \o <<Kind("Star"), NumberKind(3)>>,
               <<NumberKind(3), Kind("Star")>> \o Group(Sum),
               <<Kind("Minus")>> \o Group(Group(<<NumberKind(1)>>)),
               Group(<<Kind("True")>>), <<Kind("False")>>}
        Before == {<< >>, <<Kind("Print")>>}
        After == {<<Kind("Semicolon")>>, <<Kind("Semicolon"), Kind("Eof")>>,
                  <<Kind("Eof")>>, << >>,
                  <<Kind("Semicolon"), NumberKind(2), Kind("Semicolon"), Kind("Eof")>>,
                  <<Kind("RightParen"), Kind("Semicolon"), Kind("Eof")>>}
    IN  {b \o e \o a : b \in Before, e \in Es, a \in After}

\* a op b ; for number operands around the comparison operators
ComparisonInputs ==
    {<<NumberKind(a), Kind(op), NumberKind(b), Kind("Semicolon")>> :
        a \in 0..2, b \in 0..2,
        op \in {"Less", "Greater", "LessEqual", "GreaterEqual"}}

\* a statement that fails, then statements that are well formed
RecoveryInputs ==
    LET One == <<NumberKind(1), Kind("Semicolon")>>
        Two == <<NumberKind(2), Kind("Semicolon")>>
        Fails == {<<Kind("RightParen"), Kind("Semicolon")>>,
                  <<Kind("Semicolon")>>,
                  <<NumberKind(3), Kind("Plus"), Kind("Semicolon")>>,
                  <<Kind("Print"), Kind("Semicolon")>>,
                  <<Kind("LeftParen"), NumberKind(3), Kind("Semicolon")>>,
                  <<NumberKind(3), NumberKind(3), Kind("Semicolon")>>,
                  <<NumberKind(3), Kind("Var"), Kind("Semicolon")>>}
    IN  {f \o One \o <<Kind("Eof")>> : f \in Fails}
        \cup {f \o One \o Two \o <<Kind("Eof")>> : f \in Fails}

\* declarations: var IDENTIFIER [= expression] ;
DeclarationInputs ==
    LET Name == Token("Identifier", <<"a">>, 0)
    IN  {<<Kind("Var"), Name, Kind("Semicolon")>>,
         <<Kind("Var"), Name, Kind("Semicolon"), Kind("Eof")>>,
         <<Kind("Var"), Name, Kind("Equal"), NumberKind(1), Kind("Semicolon")>>,
         <<Kind("Var"), Name, Kind("Semicolon"), NumberKind(1), Kind("Semicolon")>>}

\* a group that is not closed: `(`, a well-formed expression, and a token
\* that is no `)`
UnclosedGroupInputs ==
    LET Inner == {<<NumberKind(1)>>,
                  <<NumberKind(1), Kind("Plus"), NumberKind(2)>>,
                  <<Kind("Minus"), NumberKind(1)>>,
                  <<Kind("LeftParen"), NumberKind(1), Kind("RightParen")>>}
        Follows == {<<NumberKind(3), Kind("Semicolon")>>,
                    <<Kind("Semicolon")>>,
                    <<NumberKind(3), Kind("Semicolon"), Kind("Eof")>>,
                    <<Kind("Var"), Kind("Semicolon")>>,
                    <<Kind("LeftParen"), NumberKind(3), Kind("RightParen"),
                      Kind("Semicolon")>>,
                    <<Kind("Eof")>>}
        Before == {<< >>, <<Kind("Print")>>,
                   <<NumberKind(2), Kind("Star")>>}
    IN  {b \o <<Kind("LeftParen")>> \o e \o f :
            b \in Before, e \in Inner, f \in Follows}

\* the operator tokens no grammar function matches, between two operands
\* and before one: 1 op 2 ; and op 1 ;
UnmatchedOperatorInputs ==
    UNION {{<<NumberKind(1), Kind(op), NumberKind(2), Kind("Semicolon")>>,
            <<Kind(op), NumberKind(1), Kind("Semicolon")>>} :
           op \in {"Equal", "And", "Or"}}

ParseInputs ==
    {WithLines(ks) :
        ks \in SeqsUpTo(TokenKinds, MaxTokens) \cup ChainInputs
                 \cup UnaryChainInputs \cup StatementInputs
                 \cup ComparisonInputs \cup RecoveryInputs
                 \cup UnclosedGroupInputs \cup DeclarationInputs
                 \cup UnmatchedOperatorInputs}

\* the statements of the parser tests, and the texts of the interpreter
\* tests with the shortest texts there are
TestInputs == {WithLines(ks) : ks \in StatementInputs \cup RecoveryInputs}

TestSources == SeqsUpTo(SrcAlphabet, 1) \cup ArithSources

\* the trees the evaluator is run on
LiteralValues ==
    {Number(F32(0, 1)), Number(F32(1, 1)), Number(F32(2, 1)), Number(NaN),
     String(<< >>), String(<<"a">>), String(<<"b">>),
     Boolean(TRUE), Boolean(FALSE), Nil}

OperatorValues == {Op(o, l) : o \in Operators, l \in 1..MaxLine}

Leaves == {Literal(v) : v \in LiteralValues}

\* operands that are themselves expressions: a group, a sum, one that
\* fails, one that is not implemented
Operands ==
    Leaves \cup
    {Grouping(Literal(Number(F32(2, 1)))),
     BinaryExpr(Literal(Number(F32(1, 1))), Op("Add", 1), Literal(Number(F32(2, 1)))),
     BinaryExpr(Literal(Number(F32(1, 1))), Op("Divide", 1), Literal(Number(F32(0, 1)))),
     UnaryExpr(Op("Subtract", 1), Literal(String(<<"a">>))),
     BinaryExpr(Literal(Nil), Op("And", 1), Literal(Nil))}

ExprNodes ==
    Operands
    \cup {Grouping(e) : e \in Operands}
    \cup {UnaryExpr(o, e) : o \in OperatorValues, e \in Operands}
    \cup {BinaryExpr(l, o, r) : l \in Operands, o \in OperatorValues, r \in Operands}

\* the tokens Operator::try_from is run on
ConversionInputs ==
    {[Kind(t) EXCEPT !.line = l] : t \in TokenTypes, l \in 1..MaxLine}

----------------------------------------------------------------------------
(* The runs *)

NoError == LexicalError("none", << >>, 0)

NoResult == [status |-> "none"]

NoToken == Token("none", << >>, 0)

NoExpr == [kind |-> "none"]

\* nothing has been called yet
Init ==
    /\ entry = "none" /\ pc = "idle"
    /\ src = << >> /\ lines_left = << >> /\ line_number = 0
    /\ nested = << >> /\ lex_error = NoError
    /\ input = << >> /\ tokens = << >> /\ statements = << >>
    /\ panic_mode = FALSE /\ errors = << >>
    /\ expr = NoExpr /\ result = NoResult
    /\ token = NoToken /\ operator = NoResult

\* Lexer::new, lexer.lex(&source) is called (run_on_string)
CallLex(texts) ==
    /\ pc = "idle"
    /\ entry' = "lex" /\ pc' = "lex"
    /\ \E source \in texts :
          /\ src' = source
          /\ lines_left' = Lines(source)
    /\ UNCHANGED <<line_number, nested, lex_error, input, tokens, statements,
                   panic_mode, errors, expr, result, token, operator>>

\* Parser::new, parser.parse(tokens) is called on a hand-built vector
CallParse(vectors) ==
    /\ pc = "idle"
    /\ entry' = "parse" /\ pc' = "parse"
    /\ \E given \in vectors :
          /\ input' = given
          /\ tokens' = given
    /\ panic_mode' = NewParser.panic_mode
    /\ errors' = NewParser.errors
    /\ UNCHANGED <<src, lines_left, line_number, nested, lex_error,
                   statements, expr, result, token, operator>>

\* the evaluator is called on a tree
CallEvaluate ==
    /\ pc = "idle"
    /\ entry' = "evaluate" /\ pc' = "evaluate"
    /\ expr' \in ExprNodes
    /\ UNCHANGED <<src, lines_left, line_number, nested, lex_error, input,
                   tokens, statements, panic_mode, errors, result, token,
                   operator>>

\* Operator::try_from is called on a token
CallTryFrom ==
    /\ pc = "idle"
    /\ entry' = "try_from" /\ pc' = "try_from"
    /\ token' \in ConversionInputs
    /\ UNCHANGED <<src, lines_left, line_number, nested, lex_error, input,
                   tokens, statements, panic_mode, errors, expr, result,
                   operator>>

\* Lexer::lex, one line of the input: the closure of `.map(...)`, pulled
\* by collect, which stops at the first Err
LexLine ==
    /\ pc = "lex"
    /\ lines_left # << >>
    /\ \E r \in {lex_chars(Head(lines_left), 1 + line_number)} :
           /\ pc' = CASE r.status = "ok" -> "lex"
                      [] r.status = "err" -> "lex_failed"
                      [] r.status = "panic" -> "panicked"
           /\ nested' = IF r.status = "ok" THEN nested \o r.tokens ELSE << >>
           /\ lex_error' = IF r.status = "err" THEN r.err ELSE lex_error
    /\ lines_left' = Tail(lines_left)
    /\ line_number' = 1 + line_number
    /\ UNCHANGED <<entry, src, input, tokens, statements, panic_mode, errors,
                   expr, result, token, operator>>

\* Lexer::lex after the last line: Eof is pushed and the tokens returned;
\* run_on_string hands them to a new Parser
LexReturn ==
    /\ pc = "lex"
    /\ lines_left = << >>
    /\ pc' = "parse"
    /\ input' = lex_finish(nested)
    /\ tokens' = input'
    /\ statements' = << >>
    /\ panic_mode' = NewParser.panic_mode
    /\ errors' = NewParser.errors
    /\ UNCHANGED <<entry, src, lines_left, line_number, nested, lex_error,
                   expr, result, token, operator>>

\* one turn of the loop, `r` being what self.statement(&mut tokens) did
Turn(r) ==
    IF r.status = "panic"
    THEN /\ pc' = "panicked"
         /\ UNCHANGED <<tokens, statements, panic_mode, errors>>
    ELSE IF Len(statements) >= MaxStatements
    THEN /\ pc' = "aborted"
         /\ tokens' = r.tokens
         /\ panic_mode' = r.st.panic_mode
         /\ errors' = r.st.errors
         /\ UNCHANGED statements
    ELSE /\ pc' = "parse"
         /\ tokens' = r.tokens
         /\ statements' = Append(statements, r.stmt)
         /\ panic_mode' = r.st.panic_mode
         /\ errors' = r.st.errors

\* Parser::parse, one turn of `while tokens.len() > 0`.  The vector of
\* statements is all the memory there is: a push beyond MaxStatements
\* aborts the process.
ParseStatement ==
    /\ pc = "parse"
    /\ Len(tokens) > 0
    /\ \E r \in {statement(tokens, [panic_mode |-> panic_mode,
                                       errors |-> errors])} : Turn(r)
    /\ UNCHANGED <<entry, src, lines_left, line_number, nested, lex_error,
                   input, expr, result, token, operator>>

\* Parser::parse: the queue is empty, `statements` is returned
ParseReturn ==
    /\ pc = "parse"
    /\ Len(tokens) = 0
    /\ pc' = "parsed"
    /\ UNCHANGED <<entry, src, lines_left, line_number, nested, lex_error,
                   input, tokens, statements, panic_mode, errors, expr,
                   result, token, operator>>

\* the evaluator visits the tree
Evaluate ==
    /\ pc = "evaluate"
    /\ LET r == visit_expr_node(expr)
       IN  /\ result' = r
           /\ pc' = IF r.status = "panic" THEN "panicked" ELSE "evaluated"
    /\ UNCHANGED <<entry, src, lines_left, line_number, nested, lex_error,
                   input, tokens, statements, panic_mode, errors, expr,
                   token, operator>>

\* Operator::try_from(&token)
TryFrom ==
    /\ pc = "try_from"
    /\ operator' = try_from(token)
    /\ pc' = "converted"
    /\ UNCHANGED <<entry, src, lines_left, line_number, nested, lex_error,
                   input, tokens, statements, panic_mode, errors, expr,
                   result, token>>

Next ==
    \/ CallLex(Sources)
    \/ CallParse(ParseInputs)
    \/ CallEvaluate
    \/ CallTryFrom
    \/ LexLine
    \/ LexReturn
    \/ ParseStatement
    \/ ParseReturn
    \/ Evaluate
    \/ TryFrom

Spec == Init /\ [][Next]_vars

\* lex and parse alone, on the texts of the tests and on the statements
NextParsed ==
    \/ CallLex(TestSources)
    \/ CallParse(TestInputs)
    \/ LexLine
    \/ LexReturn
    \/ ParseStatement
    \/ ParseReturn

\* the program runs on: no step that can be taken is put off for ever
FairSpec == Init /\ [][NextParsed]_vars /\ WF_vars(NextParsed)

----------------------------------------------------------------------------
(* The grammar the parser is to follow, as sets of trees: the trees a token
   sequence has at a level.  Level 1 is equality, 2 comparison, 3 term,
   4 factor, 5 unary, 6 primary. *)

OpsAt(L) ==
    CASE L = 1 -> {"BangEqual", "EqualEqual"}
      [] L = 2 -> {"Less", "Greater", "LessEqual", "GreaterEqual"}
      [] L = 3 -> {"Plus", "Minus"}
      [] L = 4 -> {"Star", "Slash"}

RECURSIVE Trees(_, _)
Trees(L, s) ==
    IF s = << >> THEN {}
    ELSE IF L = 6
    THEN IF Len(s) = 1
         THEN IF IsLiteralToken(s[1]) THEN {LiteralOfToken(s[1])} ELSE {}
         ELSE IF s[1].type = "LeftParen" /\ s[Len(s)].type = "RightParen"
         THEN {Grouping(t) : t \in Trees(1, SubSeq(s, 2, Len(s) - 1))}
         ELSE {}
    ELSE IF L = 5
    THEN Trees(6, s) \cup
         (IF s[1].type \in {"Bang", "Minus"}
          THEN {UnaryExpr(try_from(s[1]).val, t) : t \in Trees(5, Tail(s))}
          ELSE {})
    ELSE Trees(L + 1, s) \cup
         UNION {{BinaryExpr(lr[1], try_from(s[i]).val, lr[2]) :
                    lr \in Trees(L, SubSeq(s, 1, i - 1))
                             \X Trees(L + 1, SubSeq(s, i + 1, Len(s)))} :
                i \in {j \in 2..(Len(s) - 1) : s[j].type \in OpsAt(L)}}

\* the trees of a well-formed expression
ExpressionTrees(s) == Trees(1, s)

HasSemicolon(toks) == \E i \in 1..Len(toks) : toks[i].type = "Semicolon"

\* the position of the first `;`, past the end if there is none
FirstSemicolon(toks) ==
    IF HasSemicolon(toks)
    THEN CHOOSE i \in 1..Len(toks) :
             /\ toks[i].type = "Semicolon"
             /\ \A j \in 1..(i - 1) : toks[j].type # "Semicolon"
    ELSE Len(toks) + 1

\* what is left of the queue after its first `;`
AfterSemicolon(toks) == SubSeq(toks, FirstSemicolon(toks) + 1, Len(toks))

\* the expression of the queue's first statement: the tokens before the
\* first `;`, less a leading `print`
FirstExpression(toks) ==
    LET before == SubSeq(toks, 1, FirstSemicolon(toks) - 1)
    IN  IF before # << >> /\ before[1].type = "Print" THEN Tail(before)
        ELSE before

\* the queue begins with a well-formed statement: [print] E ;
BeginsWellFormed(toks) ==
    /\ HasSemicolon(toks)
    /\ ExpressionTrees(FirstExpression(toks)) # {}

EndsInEof(toks) == toks # << >> /\ toks[Len(toks)].type = "Eof"

----------------------------------------------------------------------------
(* Claims *)

\* C1: for every token sequence that lex can return (finite, ending in the
\* Eof token) Parser::parse eventually returns a statement sequence: the
\* loop `while tokens.len() > 0` terminates.
C1_ParseReturns ==
    (entry = "lex" /\ pc = "parse" /\ EndsInEof(tokens)) ~> (pc = "parsed")

\* C2: every token sequence a successful lex call returns ends with
\* exactly one Eof token and holds no Eof token at any other position,
\* for every input, the empty, the blank-only and the comment-only ones
\* included.
C2_OneEofAtTheEnd ==
    [][(pc = "lex" /\ pc' = "parse") =>
           /\ EndsInEof(input')
           /\ \A i \in 1..(Len(input') - 1) : input'[i].type # "Eof"]_vars

\* a comment-only source has been lexed: the Eof token is all there is
C2_CommentOnlyLexed ==
    /\ entry = "lex" /\ pc = "parse"
    /\ src = <<"/", "/", "a">>
    /\ input = <<Token("Eof", << >>, 0)>>

\* C3: after parse emits an ErrStmt for a statement that fails to parse, it
\* eventually emits a statement node for each well-formed statement that
\* follows in the token queue.  Stated for the first statement of the
\* queue, the statement that follows being the one after the first `;`.
C3_ParsingGoesOnAfterErrStmt ==
    (/\ entry = "parse" /\ pc = "parse"
     /\ Len(statements) = 1 /\ statements[1].kind = "ErrStmt"
     /\ HasSemicolon(input)
     /\ BeginsWellFormed(AfterSemicolon(input)))
    ~> (\E k \in 1..Len(statements) :
           /\ statements[k].kind \in {"ExprStmt", "PrintStmt"}
           /\ statements[k].expr
                  \in ExpressionTrees(FirstExpression(AfterSemicolon(input))))

\* C4: for a token queue that begins with `print` E `;` (E a well-formed
\* expression) Parser::statement returns PrintStmt(tree of E), and for one
\* that begins with E `;` it returns ExprStmt(tree of E); in both cases
\* exactly the tokens up to and including that `;` are removed from the
\* front of the queue and the rest is left untouched.
C4_StatementParsed ==
    BeginsWellFormed(input) =>
        /\ ~(pc = "panicked" /\ statements = << >>)
        /\ Len(statements) >= 1 =>
              /\ statements[1].kind =
                     IF input[1].type = "Print" THEN "PrintStmt" ELSE "ExprStmt"
              /\ statements[1].expr \in ExpressionTrees(FirstExpression(input))
        /\ (pc = "parse" /\ Len(statements) = 1) =>
              tokens = AfterSemicolon(input)

\* `print (1 + 2) * 3 ; 2 ; Eof` after the first turn: 2 ; Eof is left
C4_PrintStatementParsed ==
    /\ entry = "parse" /\ pc = "parse"
    /\ Len(input) = 12 /\ input[1].type = "Print"
    /\ BeginsWellFormed(input)
    /\ Len(statements) = 1
    /\ statements[1].kind = "PrintStmt"
    /\ statements[1].expr.kind = "BinaryExpr"
    /\ statements[1].expr.left.kind = "Grouping"
    /\ Len(tokens) = 3 /\ tokens = SubSeq(input, 10, 12)

\* the precedence level of a tree: that of its operator for a BinaryExpr
\* (1 equality .. 4 factor), 5 for a UnaryExpr, 6 for a literal or a group
Level(t) ==
    CASE t.kind = "BinaryExpr" ->
           (CASE t.operator.op \in {"EqualEqual", "NotEqual"} -> 1
              [] t.operator.op \in {"GreaterThan", "LessThan"} -> 2
              [] t.operator.op \in {"Add", "Subtract"} -> 3
              [] t.operator.op \in {"Multiply", "Divide"} -> 4
              [] OTHER -> 0)
      [] t.kind = "UnaryExpr" -> 5
      [] OTHER -> 6

\* no operator has, without a group between them, an operator of a lower
\* level below it
RECURSIVE PrecedenceNested(_)
PrecedenceNested(t) ==
    CASE t.kind = "BinaryExpr" ->
           /\ Level(t) \in 1..4
           /\ Level(t.left) >= Level(t)
           /\ Level(t.right) > Level(t)
           /\ PrecedenceNested(t.left)
           /\ PrecedenceNested(t.right)
      [] t.kind = "UnaryExpr" ->
           /\ t.operator.op \in {"Bang", "Subtract"}
           /\ Level(t.right) >= 5
           /\ PrecedenceNested(t.right)
      [] t.kind = "Grouping" -> PrecedenceNested(t.expr)
      [] OTHER -> TRUE

\* 1 + 2 * - 3 ;
OnePlusTwoTimesMinusThree ==
    WithLines(<<NumberKind(1), Kind("Plus"), NumberKind(2), Kind("Star"),
                Kind("Minus"), NumberKind(3), Kind("Semicolon")>>)

AddOneToTwoTimesMinusThree ==
    BinaryExpr(Literal(Number(F32(1, 1))), Op("Add", 2),
               BinaryExpr(Literal(Number(F32(2, 1))), Op("Multiply", 4),
                          UnaryExpr(Op("Subtract", 5),
                                    Literal(Number(F32(3, 1))))))

\* C5: in the tree built by Parser::expression, operators of a
\* higher-precedence level always end up nested below operators of a
\* lower-precedence level: unary binds tighter than * /, these tighter
\* than + -, these tighter than > < >= <=, these tighter than == !=; and
\* 1 + 2 * -3 is Add(1, Multiply(2, Unary Subtract(3))).
C5_PrecedenceNested ==
    /\ \A k \in 1..Len(statements) :
          statements[k].kind \in {"ExprStmt", "PrintStmt"} =>
              PrecedenceNested(statements[k].expr)
    /\ (input = OnePlusTwoTimesMinusThree /\ pc \in {"parse", "parsed"}
            /\ tokens # input) =>
          statements[1] = ExprStmt(AddOneToTwoTimesMinusThree)

\* 1 + 2 * - 3 ; has been parsed
C5_ExampleParsed ==
    /\ entry = "parse" /\ pc = "parsed"
    /\ input = OnePlusTwoTimesMinusThree
    /\ statements = <<ExprStmt(AddOneToTwoTimesMinusThree)>>

\* x1 op1 x2 ... opk x(k+1) ; with k >= 1 operators of one level
SameLevelChain(toks) ==
    /\ Len(toks) >= 4 /\ Len(toks) % 2 = 0
    /\ toks[Len(toks)].type = "Semicolon"
    /\ \A i \in 1..(Len(toks) - 1) : i % 2 = 1 => toks[i].type = "Number"
    /\ \E L \in 1..4 :
          \A i \in 1..(Len(toks) - 1) : i % 2 = 0 => toks[i].type \in OpsAt(L)

\* (((x1 op1 x2) op2 x3) ... opk x(k+1))
RECURSIVE LeftFold(_, _)
LeftFold(toks, k) ==
    IF k = 0 THEN LiteralOfToken(toks[1])
    ELSE BinaryExpr(LeftFold(toks, k - 1), try_from(toks[2 * k]).val,
                    LiteralOfToken(toks[2 * k + 1]))

\* C6: a chain of binary operators of the same precedence level is parsed
\* left-associatively: the tree of x1 op1 x2 op2 x3 ... is
\* (((x1 op1 x2) op2 x3) ...), the node built so far always becoming the
\* left child of the next BinaryExpr.
C6_LeftAssociative ==
    SameLevelChain(input) =>
        /\ ~(pc = "panicked" /\ statements = << >>)
        /\ Len(statements) >= 1 =>
              statements[1] = ExprStmt(LeftFold(input, (Len(input) - 2) \div 2))

\* 1 - 2 + 3 - 4 ; has been parsed
C6_ChainParsed ==
    /\ entry = "parse" /\ pc = "parsed"
    /\ SameLevelChain(input) /\ Len(input) = 8
    /\ statements =
           <<ExprStmt(
               BinaryExpr(
                   BinaryExpr(
                       BinaryExpr(Literal(Number(F32(1, 1))), Op("Subtract", 2),
                                  Literal(Number(F32(2, 1)))),
                       Op("Add", 4), Literal(Number(F32(3, 1)))),
                   Op("Subtract", 6), Literal(Number(F32(4, 1)))))>>

\* the arithmetic value of the texts of the interpreter tests
ArithValue(text) ==
    CASE text = <<"1", " ", "+", " ", "2">> -> F32(3, 1)
      [] text = <<"1", " ", "-", " ", "2">> -> F32(-1, 1)
      [] text = <<"1", " ", "+", " ", "2", " ", "-", " ", "3">> -> F32(0, 1)
      [] text = <<"1", " ", "*", " ", "2">> -> F32(2, 1)
      [] text = <<"1", " ", "/", " ", "2">> -> F32(1, 2)
      [] text = <<"1", " ", "*", " ", "2", " ", "/", " ", "3">> -> F32(2, 3)
      [] text = <<"1", " ", "+", "(", "2", " ", "*", " ", "3", ")">> -> F32(7, 1)
      [] text = <<"(", "1", " ", "+", " ", "2", ")", " ", "*", " ", "3">> -> F32(9, 1)
      [] text = <<"3", " ", "*", " ", "(", "1", " ", "+", " ", "2", ")">> -> F32(9, 1)
      [] text = <<"1", "+", "2", "*", "3">> -> F32(7, 1)
      [] text = <<"2", "-", "1", "-", "1">> -> F32(0, 1)

\* C7: for source text that is an arithmetic expression over number
\* literals with + - * / and parentheses, written with no trailing `;`,
\* lex, then parse, then evaluate returns the Number equal to the
\* expression's arithmetic value (1 + 2 gives 3, (1 + 2) * 3 gives 9).
\* Stated of the first statement parse makes of the text.
C7_ArithmeticEvaluates ==
    (entry = "lex" /\ src \in ArithSources /\ Len(statements) >= 1) =>
        /\ statements[1].kind = "ExprStmt"
        /\ visit_expr_node(statements[1].expr) = Value(Number(ArithValue(src)))

\* a >= b ; or a <= b ; for two numbers
GreaterOrLessEqual(toks) ==
    /\ Len(toks) = 4
    /\ toks[1].type = "Number" /\ toks[3].type = "Number"
    /\ toks[2].type \in {"GreaterEqual", "LessEqual"}
    /\ toks[4].type = "Semicolon"

\* C8: for all Number operands a and b, the BinaryExpr the parser builds
\* from a >= b evaluates to Boolean(true) exactly when a is greater than or
\* equal to b, and the one built from a <= b to Boolean(true) exactly when
\* a is less than or equal to b.
C8_GreaterEqualLessEqual ==
    (entry = "parse" /\ GreaterOrLessEqual(input) /\ Len(statements) >= 1) =>
        /\ statements[1].kind = "ExprStmt"
        /\ visit_expr_node(statements[1].expr) =
               Value(Boolean(
                   IF input[2].type = "GreaterEqual"
                   THEN F32Gt(input[1].num, input[3].num)
                            \/ F32Eq(input[1].num, input[3].num)
                   ELSE F32Lt(input[1].num, input[3].num)
                            \/ F32Eq(input[1].num, input[3].num)))

\* the twelve token kinds with their operators
TwelveKinds ==
    {<<"Plus", "Add">>, <<"Minus", "Subtract">>, <<"Star", "Multiply">>,
     <<"Slash", "Divide">>, <<"Greater", "GreaterThan">>,
     <<"Less", "LessThan">>, <<"Equal", "Equal">>, <<"BangEqual", "NotEqual">>,
     <<"And", "And">>, <<"Or", "Or">>, <<"Bang", "Bang">>,
     <<"EqualEqual", "EqualEqual">>}

\* C9: Operator::try_from maps exactly the twelve token kinds Plus, Minus,
\* Star, Slash, Greater, Less, Equal, BangEqual, And, Or, Bang, EqualEqual
\* to Add, Subtract, Multiply, Divide, GreaterThan, LessThan, Equal,
\* NotEqual, And, Or, Bang, EqualEqual (each carrying the token's line), and
\* returns an error for every other token kind.
C9_TwelveKindsConverted ==
    pc = "converted" =>
        /\ \A m \in TwelveKinds :
              token.type = m[1] => operator = Ok(Op(m[2], token.line))
        /\ (\A m \in TwelveKinds : token.type # m[1]) => ~operator.ok

\* C10: evaluating BinaryExpr with operator Add yields Number(l + r) when
\* both operands evaluate to Numbers l and r, and String(l followed by r)
\* when both evaluate to Strings l and r.
C10_AddNumbersOrStrings ==
    (pc \in {"evaluated", "panicked"} /\ entry = "evaluate"
        /\ expr.kind = "BinaryExpr" /\ expr.operator.op = "Add") =>
        \A l \in {visit_expr_node(expr.left)} :
        \A r \in {visit_expr_node(expr.right)} :
            (l.status = "ok" /\ r.status = "ok") =>
                /\ BothNumbers(l.val, r.val) =>
                      result = Value(Number(F32Add(l.val.num, r.val.num)))
                /\ BothStrings(l.val, r.val) =>
                      result = Value(String(l.val.str \o r.val.str))

\* "a" + "b" has been evaluated to "ab"
C10_StringsAdded ==
    /\ entry = "evaluate" /\ pc = "evaluated"
    /\ expr = BinaryExpr(Literal(String(<<"a">>)), Op("Add", 1),
                         Literal(String(<<"b">>)))
    /\ result = Value(String(<<"a", "b">>))

----------------------------------------------------------------------------
(* Claims about the evaluator's operators *)

\* `part` is found in the message
Contains(msg, part) ==
    \E i \in 0..(Len(msg) - Len(part)) : SubSeq(msg, i + 1, i + Len(part)) = part

\* the text that names a literal value
Named(lit) ==
    CASE lit.type = "Number" -> DisplayF32(lit.num)
      [] lit.type = "String" -> lit.str
      [] lit.type = "Boolean" -> IF lit.bool THEN <<"true">> ELSE <<"false">>
      [] lit.type = "Nil" -> <<"nil">>

NamesLine(msg, line) == Contains(msg, <<"[line ", ToString(line), "] Error ">>)

\* a RuntimeError value with the line and the text of its message
RuntimeError(line, text) ==
    [status |-> "err",
     msg |-> <<"[line ", ToString(line), "] Error ", "", ": ", text>>]

TwoOf(kind, e) == e.left.lit.type = kind /\ e.right.lit.type = kind

\* the tree evaluated is `left o right` with two literal operands
BinaryOfLiterals(e) ==
    /\ e.kind = "BinaryExpr"
    /\ e.left.kind = "Literal"
    /\ e.right.kind = "Literal"

\* the evaluator was run on `left + right`, the operands being no two
\* numbers and no two strings
AddMismatchEvaluated ==
    /\ entry = "evaluate" /\ pc \in {"evaluated", "panicked"}
    /\ BinaryOfLiterals(expr)
    /\ expr.operator.op = "Add"
    /\ ~TwoOf("Number", expr)
    /\ ~TwoOf("String", expr)

\* C11 as stated: Add on any operand pairing other than Number/Number or
\* String/String, whatever the kind of the left operand (Number, String,
\* Boolean, Nil), fails with a RuntimeError whose message names the left
\* operand and the operator's line.
C11_AddMismatchNamesLeftOperand ==
    AddMismatchEvaluated =>
        /\ result.status = "err"
        /\ Contains(result.msg, Named(expr.left.lit))
        /\ NamesLine(result.msg, expr.operator.line)

\* C11 as the code has it: Add on such a pairing fails with a RuntimeError
\* whose message names the operator's line; it names the left operand when
\* the left operand is a Number or a String, and is "Operands must be two
\* numbers or two strings" when the left operand is a Boolean or Nil.
C11_AddMismatchFails ==
    AddMismatchEvaluated =>
        /\ result.status = "err"
        /\ NamesLine(result.msg, expr.operator.line)
        /\ expr.left.lit.type \in {"Number", "String"} =>
              Contains(result.msg, Named(expr.left.lit))
        /\ expr.left.lit.type \in {"Boolean", "Nil"} =>
              result = RuntimeError(expr.operator.line,
                               "Operands must be two numbers or two strings")

\* true + 1 was evaluated, on line 2
C11_BooleanAddedTo ==
    /\ AddMismatchEvaluated
    /\ expr.left.lit = Boolean(TRUE)
    /\ expr.right.lit = Number(F32(1, 1))
    /\ expr.operator.line = 2
    /\ result.status = "err"

\* the evaluator was run on `left o right` with two literal operands
BinaryEvaluated ==
    /\ entry = "evaluate" /\ pc \in {"evaluated", "panicked"}
    /\ BinaryOfLiterals(expr)

\* C12: Subtract, Multiply and Divide succeed exactly when both operands
\* are Numbers (Divide also when the divisor is zero: the quotient is then
\* infinite or NaN) and otherwise fail with "Operands must be two numbers";
\* GreaterThan and LessThan succeed exactly when both operands are Numbers
\* or both are Strings and otherwise fail with "Operands must be two
\* numbers or two strings".
C12_ArithmeticAndOrderingOperands ==
    BinaryEvaluated =>
        /\ expr.operator.op \in {"Subtract", "Multiply", "Divide"} =>
              IF TwoOf("Number", expr)
              THEN result.status = "ok" /\ result.val.type = "Number"
              ELSE result = RuntimeError(expr.operator.line,
                                         "Operands must be two numbers")
        /\ (/\ expr.operator.op = "Divide"
            /\ TwoOf("Number", expr)
            /\ expr.right.lit.num = F32(0, 1)) =>
              result.status = "ok" /\ result.val.num.d = 0
        /\ expr.operator.op \in {"GreaterThan", "LessThan"} =>
              IF TwoOf("Number", expr) \/ TwoOf("String", expr)
              THEN result.status = "ok" /\ result.val.type = "Boolean"
              ELSE result = RuntimeError(expr.operator.line,
                               "Operands must be two numbers or two strings")

\* 1 / 0 was evaluated: the quotient is infinite
C12_DividedByZero ==
    /\ BinaryEvaluated
    /\ expr.operator.op = "Divide"
    /\ expr.left.lit = Number(F32(1, 1))
    /\ expr.right.lit = Number(F32(0, 1))
    /\ result = Value(Number([n |-> 1, d |-> 0]))

\* the variant and the payload of x and y are the same
SameVariantAndPayload(x, y) == x = y

\* x and y are the same variant and their payloads are equal as the payload
\* type has it: for the f32 of a Number, NaN is equal to no f32
SameValue(x, y) ==
    /\ x.type = y.type
    /\ x.str = y.str
    /\ x.bool = y.bool
    /\ ~IsNaN(x.num) /\ ~IsNaN(y.num) /\ x.num = y.num

EqualityEvaluated ==
    BinaryEvaluated /\ expr.operator.op \in {"EqualEqual", "NotEqual"}

\* what C13 says of `x == y` and `x != y`, `same` being when two values
\* are to be equal: neither fails, `x == y` is Boolean(same(x, y)), Nil is
\* equal only to Nil, cross-variant pairs are unequal, `y == x` gives the
\* same, and `x != y` is the negation of `x == y`
EqualityFollows(same(_, _)) ==
    LET x == expr.left.lit
        y == expr.right.lit
        line == expr.operator.line
    IN  /\ result = Value(Boolean(IF expr.operator.op = "EqualEqual"
                                  THEN same(x, y) ELSE ~same(x, y)))
        /\ (x.type = "Nil" \/ y.type = "Nil") => (same(x, y) <=> x.type = y.type)
        /\ x.type # y.type => ~same(x, y)
        /\ result = visit_expr_node(
                        BinaryExpr(expr.right, expr.operator, expr.left))
        /\ visit_expr_node(BinaryExpr(expr.left, Op("NotEqual", line), expr.right))
               = Value(Boolean(~visit_expr_node(
                     BinaryExpr(expr.left, Op("EqualEqual", line), expr.right)).val.bool))

\* C13 as stated: for every pair of literal values x and y, `x == y` and
\* `x != y` never fail; `x == y` is Boolean(true) exactly when x and y are
\* the same variant with equal payload (Nil equal only to Nil, cross-variant
\* pairs unequal), the result is symmetric in x and y, and `x != y` is the
\* negation of `x == y`.
C13_EqualityByVariantAndPayload ==
    EqualityEvaluated => EqualityFollows(SameVariantAndPayload)

\* C13 as the code has it: the same, the payloads of two Numbers being
\* compared as f32 values, so that Number(NaN) is equal to no value, itself
\* included: `x == x` is Boolean(false) and `x != x` Boolean(true) for it.
C13_EqualityStructural ==
    EqualityEvaluated => EqualityFollows(SameValue)

\* NaN == NaN was evaluated: Boolean(false)
C13_NaNUnequalToItself ==
    /\ EqualityEvaluated
    /\ expr.operator.op = "EqualEqual"
    /\ expr.left.lit = Number(NaN)
    /\ expr.right.lit = Number(NaN)
    /\ result = Value(Boolean(FALSE))

\* the evaluator was run on `o v` with a literal operand
UnaryEvaluated ==
    /\ entry = "evaluate" /\ pc \in {"evaluated", "panicked"}
    /\ expr.kind = "UnaryExpr"
    /\ expr.right.kind = "Literal"

\* C14: unary Bang on the operand value v yields Boolean(false) for every
\* Number and every String (so `!0` and `!5` are false), Boolean(not b) for
\* Boolean(b), and Boolean(true) for Nil.
C14_BangOfValue ==
    (UnaryEvaluated /\ expr.operator.op = "Bang") =>
        LET v == expr.right.lit
        IN  result = Value(Boolean(CASE v.type = "Number" -> FALSE
                                     [] v.type = "String" -> FALSE
                                     [] v.type = "Boolean" -> ~v.bool
                                     [] v.type = "Nil" -> TRUE))

\* !0 was evaluated: Boolean(false)
C14_BangOfZero ==
    /\ UnaryEvaluated
    /\ expr.operator.op = "Bang"
    /\ expr.right.lit = Number(F32(0, 1))
    /\ result = Value(Boolean(FALSE))

\* C15: for every constructible ExprNode (any operator in binary or unary
\* position, Equal, And, Or and a binary Bang included) evaluation ends by
\* returning a Literal or a RuntimeError value; it never aborts the process.
C15_EvaluationReturns ==
    (entry = "evaluate" /\ pc # "evaluate") =>
        /\ pc = "evaluated"
        /\ result.status \in {"ok", "err"}

----------------------------------------------------------------------------
(* Claims about the lexer's errors *)

\* lex was called on `src` and is over: it returned the tokens, returned an
\* error or aborted
LexEnded == entry = "lex" /\ pc # "lex"

\* lex has just ended: the parser has not had a turn.  What lex returned
\* is the same in every state after this one
LexJustEnded == LexEnded /\ statements = << >>

\* lex returned `input`
LexReturned == LexEnded /\ input # << >>

\* lex returned `lex_error`
LexFailed == LexEnded /\ pc = "lex_failed"

\* line i of the text holds a lexical error: lexed alone, it gives no
\* tokens
HoldsLexicalError(text, i) == lex_chars(Lines(text)[i], i).status # "ok"

HasLexicalError(text) ==
    \E i \in 1..Len(Lines(text)) : HoldsLexicalError(text, i)

\* the first line with a lexical error
FirstErrorLine(text) ==
    CHOOSE i \in 1..Len(Lines(text)) :
        /\ HoldsLexicalError(text, i)
        /\ \A j \in 1..(i - 1) : ~HoldsLexicalError(text, j)

\* C16: if any line of the input contains a lexical error, lex returns only
\* an error and no tokens at all (neither those of earlier lines nor those
\* lexed earlier on the failing line), and the error returned is the first
\* one in source order.
C16_FailsFastWithFirstError ==
    (LexEnded /\ HasLexicalError(src)) =>
        /\ LexFailed
        /\ nested = << >> /\ input = << >>
        /\ lex_error.line = FirstErrorLine(src)
        /\ lex_error = lex_chars(Lines(src)[FirstErrorLine(src)],
                                 FirstErrorLine(src)).err

QuoteCharacters == {"\"", "'"}

\* where the character c first occurs in the text, 0 if it does not
FirstOf(c, text) ==
    IF \E k \in 1..Len(text) : text[k] = c
    THEN CHOOSE k \in 1..Len(text) :
             text[k] = c /\ \A j \in 1..(k - 1) : text[j] # c
    ELSE 0

\* lex was run on one line that opens with a quote character
StringLexedFirst ==
    /\ LexEnded
    /\ Len(Lines(src)) = 1
    /\ src = Lines(src)[1]
    /\ Head(src) \in QuoteCharacters

\* C17: a string literal opened by a quote character ends only at the
\* matching terminating quote: the String token's payload is exactly the
\* text between the opening quote and the next occurrence of that same
\* quote character (which is consumed), and if the line ends before it
\* appears lex fails with UnterminatedString.
C17_StringEndsAtMatchingQuote ==
    StringLexedFirst =>
        LET text == Tail(src)
            close == FirstOf(Head(src), text)
        IN  IF close = 0
            THEN /\ LexFailed
                 /\ lex_error = [kind |-> "UnterminatedString", text |-> text,
                                 line |-> 1]
            ELSE LexReturned =>
                    /\ input[1].type = "String"
                    /\ input[1].str = SubSeq(text, 1, close - 1)
                    /\ input[1].lexeme = SubSeq(src, 1, close + 1)

\* the characters C18 lists
ListedCharacters ==
    {"(", ")", "{", "}", ",", ".", "-", "+", ";", "*"}
        \cup {"/", "!", "=", ">", "<"}
        \cup {" ", "\r", "\t"}
        \cup {"\""}
        \cup AsciiDigits
        \cup {c \in SrcAlphabet \cup {"U+00BD", "'", "_"} : is_alphabetic(c)}

\* the characters the code has an arm for: the single quote and every
\* numeric character as well
CharactersWithAnArm ==
    ListedCharacters \cup {"'"}
        \cup {c \in SrcAlphabet \cup {"U+00BD", "'", "_"} : is_numeric(c)}

\* lex was run on a text whose lines before the i-th hold no lexical error,
\* and the first character of line i that is no blank is at k: it is
\* outside of every string literal and comment
FirstCharacterAt(i, k) ==
    /\ LexEnded
    /\ i \in 1..Len(Lines(src))
    /\ k \in 1..Len(Lines(src)[i])
    /\ \A j \in 1..(k - 1) : Lines(src)[i][j] = " "
    /\ \A j \in 1..(i - 1) : ~HoldsLexicalError(src, j)

\* lex fails with UnexpectedCharacter on every first character that is
\* none of `known`
UnexpectedUnless(known) ==
    LexEnded =>
        \A i \in 1..Len(Lines(src)) :
            \A k \in 1..Len(Lines(src)[i]) :
                (Lines(src)[i][k] \notin known /\ FirstCharacterAt(i, k)) =>
                    /\ LexFailed
                    /\ lex_error = [kind |-> "UnexpectedCharacter",
                                    text |-> <<Lines(src)[i][k]>>, line |-> i]

RECURSIVE NumberText(_)
NumberText(text) ==
    IF text # << >> /\ (is_numeric(Head(text)) \/ Head(text) = ".")
    THEN <<Head(text)>> \o NumberText(Tail(text))
    ELSE << >>

\* lex was run on one line that begins with a number literal whose text is
\* not parseable as a float
MalformedNumberLexedFirst ==
    /\ LexEnded
    /\ Len(Lines(src)) = 1
    /\ src = Lines(src)[1]
    /\ is_numeric(Head(src))
    /\ ~parse_f32(NumberText(src)).ok

\* C19: whenever the greedily accumulated digit-and-dot text of a numeric
\* literal is not parseable as a float (it holds two decimal points, say),
\* lex returns LexicalError::InvalidNumber, both when the literal ends the
\* line and when it is followed by another character on the same line.
C19_MalformedNumberIsInvalidNumber ==
    MalformedNumberLexedFirst =>
        /\ LexFailed
        /\ lex_error = [kind |-> "InvalidNumber", text |-> NumberText(src),
                        line |-> 1]

----------------------------------------------------------------------------
(* Claims about the tokens lex returns *)

\* C21: the Eof token returned by lex always has line 0, whatever the
\* input: the expected sequences of the lexer tests end in Token(Eof, "", 0)
\* even when the tokens before it are on lines 1 and 2.
C21_EofOnLineZero ==
    LexReturned => input[Len(input)] = Token("Eof", << >>, 0)

\* the text of the i-th physical line: what lies between the (i-1)-th and
\* the i-th line break
RECURSIVE PhysicalLine(_, _)
PhysicalLine(text, i) ==
    IF text = << >> THEN << >>
    ELSE IF Head(text) = "\n"
    THEN IF i = 1 THEN << >> ELSE PhysicalLine(Tail(text), i - 1)
    ELSE IF i = 1 THEN <<Head(text)>> \o PhysicalLine(Tail(text), i)
    ELSE PhysicalLine(Tail(text), i)

LineBreaks(text) == Cardinality({k \in 1..Len(text) : text[k] = "\n"})

\* C22: every non-Eof token returned by lex carries the 1-based index of
\* the physical input line on which it starts: the line numbers are at
\* least 1 and non-decreasing along the sequence, and no token spans two
\* lines (its lexeme is found on the line it carries).
C22_TokenLines ==
    (LexJustEnded /\ LexReturned) =>
        \A k \in 1..(Len(input) - 1) :
            /\ input[k].line >= 1
            /\ input[k].line <= LineBreaks(src) + 1
            /\ k > 1 => input[k - 1].line <= input[k].line
            /\ Contains(PhysicalLine(src, input[k].line), input[k].lexeme)
            /\ \A j \in 1..Len(input[k].lexeme) : input[k].lexeme[j] # "\n"

\* a text with a blank second line was lexed: tokens on lines 1 and 3
C22_TokensOnLinesOneAndThree ==
    /\ LexReturned
    /\ src = <<"1", "\n", "\n", "a">>
    /\ Len(input) = 3
    /\ input[1].line = 1
    /\ input[2] = Token("Identifier", <<"a">>, 3)

OperatorCharacters == {"!", "=", ">", "<"}

OneCharacterKind(c) ==
    CASE c = "!" -> "Bang" [] c = "=" -> "Equal"
      [] c = ">" -> "Greater" [] c = "<" -> "Less"

TwoCharacterKind(c) ==
    CASE c = "!" -> "BangEqual" [] c = "=" -> "EqualEqual"
      [] c = ">" -> "GreaterEqual" [] c = "<" -> "LessEqual"

\* lex was run on one line with one of ! = > < at p, after nothing but
\* the letters of an identifier
OperatorLexedAt(p) ==
    /\ LexJustEnded
    /\ \A k \in 1..Len(src) : src[k] # "\n"
    /\ p \in 1..Len(src)
    /\ src[p] \in OperatorCharacters
    /\ \A k \in 1..(p - 1) : src[k] = "a"

\* the tokens lex returns when what follows the operator token is lexed to
\* `after`: the identifier before it, the token, and `after`
OperatorThen(p, expected, after) ==
    /\ after.status = "err" => LexFailed /\ lex_error = after.err
    /\ after.status = "ok" =>
          /\ LexReturned
          /\ SubSeq(input, 1, Len(input) - 1) =
                 (IF p = 1 THEN << >>
                  ELSE <<Token("Identifier", SubSeq(src, 1, p - 1), 1)>>)
                     \o <<expected>> \o after.tokens

\* C23: each of ! = > < immediately followed by = on the same line is lexed
\* as one two-character token (BangEqual, EqualEqual, GreaterEqual,
\* LessEqual) that consumes both characters, and otherwise as the
\* one-character token (Bang, Equal, Greater, Less) that consumes one; no
\* whitespace is needed around them (a==b gives Identifier, EqualEqual,
\* Identifier, Eof).
C23_OneOrTwoCharacters ==
    \A p \in 1..MaxSrcLen + 1 :
        OperatorLexedAt(p) =>
            IF p < Len(src) /\ src[p + 1] = "="
            THEN OperatorThen(p, Token(TwoCharacterKind(src[p]), <<src[p], "=">>, 1),
                              lex_chars(SubSeq(src, p + 2, Len(src)), 1))
            ELSE OperatorThen(p, Token(OneCharacterKind(src[p]), <<src[p]>>, 1),
                              lex_chars(SubSeq(src, p + 1, Len(src)), 1))

\* a==a was lexed
C23_EqualEqualBetweenIdentifiers ==
    /\ OperatorLexedAt(2)
    /\ src = <<"a", "=", "=", "a">>
    /\ input = <<Token("Identifier", <<"a">>, 1), Token("EqualEqual", <<"=", "=">>, 1),
                 Token("Identifier", <<"a">>, 1), Token("Eof", << >>, 1)>>

\* where `//` first occurs in the line, 0 if it does not
CommentAt(line) ==
    IF \E p \in 1..(Len(line) - 1) : line[p] = "/" /\ line[p + 1] = "/"
    THEN CHOOSE p \in 1..(Len(line) - 1) :
             /\ line[p] = "/" /\ line[p + 1] = "/"
             /\ \A q \in 1..(p - 1) : ~(line[q] = "/" /\ line[q + 1] = "/")
    ELSE 0

NoQuoteIn(text) == \A k \in 1..Len(text) : text[k] \notin QuoteCharacters

\* the line without its comment; a `//` after a quote character may lie in
\* a string literal and is left alone
WithoutComment(line) ==
    IF CommentAt(line) > 0 /\ NoQuoteIn(SubSeq(line, 1, CommentAt(line) - 1))
    THEN SubSeq(line, 1, CommentAt(line) - 1)
    ELSE line

\* what lex gives when every line from the i-th on is lexed without its
\* comment
RECURSIVE LexedWithoutComments(_, _)
LexedWithoutComments(lines, i) ==
    IF i > Len(lines) THEN LexOk(<< >>)
    ELSE LET here == lex_chars(WithoutComment(lines[i]), i)
             below == LexedWithoutComments(lines, i + 1)
         IN  IF here.status # "ok" THEN here
             ELSE IF below.status # "ok" THEN below
             ELSE LexOk(here.tokens \o below.tokens)

SlashTokens(toks) == Cardinality({k \in 1..Len(toks) : toks[k].type = "Slash"})

Slashes(text) == Cardinality({k \in 1..Len(text) : text[k] = "/"})

\* C24: when `//` occurs on a line outside a string literal, the tokens
\* lexed before it on that line are kept, no token is emitted for the rest
\* of that line, and lexing resumes on the next line: where the text
\* without its comments can be lexed, lex gives the same tokens, and where
\* it cannot, lex returns no tokens either. A single `/` not followed by
\* `/` yields Slash. An input holding only a comment line yields only Eof.
C24_CommentsSkipped ==
    LexJustEnded =>
        LET lines == Lines(src)
            expected == LexedWithoutComments(lines, 1)
        IN  /\ expected.status = "ok" =>
                  /\ LexReturned
                  /\ SubSeq(input, 1, Len(input) - 1) = expected.tokens
            /\ expected.status # "ok" => ~LexReturned
            /\ (LexReturned /\ NoQuoteIn(src)
                  /\ \A i \in 1..Len(lines) : CommentAt(lines[i]) = 0) =>
                  SlashTokens(input) = Slashes(src)
            /\ (Len(lines) = 1 /\ CommentAt(lines[1]) = 1) =>
                  input = <<Token("Eof", << >>, 0)>>

\* a token, then a comment that holds what would be an error
C24_TokenBeforeCommentKept ==
    /\ LexReturned
    /\ src = <<"1", "/", "/", "@">>
    /\ input = <<NumberToken(F32(1, 1), <<"1">>, 1), Token("Eof", << >>, 1)>>

----------------------------------------------------------------------------
(* Claims about the parser's state and its errors *)

\* Parser::parse was called on a hand-built vector and has returned
ParseReturned == entry = "parse" /\ pc = "parsed"

\* C25: no stage retains state across calls: after any call to lex, parse
\* or evaluate the instance holds exactly the state it held before the call
\* (for the Parser: its panic_mode flag and its errors list), so a second
\* call on the same instance starts from the same state as the first.
C25_ParserStateAsBefore ==
    ParseReturned =>
        /\ panic_mode = NewParser.panic_mode
        /\ errors = NewParser.errors

\* Parser::parse was called on a vector that begins with a declaration,
\* `var` and an identifier, and the first statement has been parsed
DeclarationParsed ==
    /\ entry = "parse"
    /\ Len(input) >= 2
    /\ input[1].type = "Var"
    /\ input[2].type = "Identifier"
    /\ pc # "parse" \/ statements # << >>

\* C26: a declaration statement in the token sequence (the `var` keyword
\* followed by an identifier) is parsed into a VarStmt node that records
\* the declared name.
C26_DeclarationIsVarStmt ==
    DeclarationParsed =>
        /\ statements # << >>
        /\ statements[1] = VarStmt(input[2].lexeme)


\* the operators that carry an expression on
ContinuingKinds == UNION {OpsAt(L) : L \in 1..4}

\* the first statement of the queue has just been returned
FirstStatementReturned == pc # "lex" /\ input # << >> /\ Len(statements) = 1

\* the queue's first statement less its leading `print`
StatementBody(toks) == IF toks[1].type = "Print" THEN Tail(toks) ELSE toks

\* the queue begins with [print] E x: E a well-formed expression, x a token
\* that is no `;` and does not carry E on
MissesSemicolon(toks) ==
    \E n \in 1..(Len(StatementBody(toks)) - 1) :
        /\ StatementBody(toks)[n + 1].type \notin
               ContinuingKinds \cup {"Semicolon"}
        /\ ExpressionTrees(SubSeq(StatementBody(toks), 1, n)) # {}

\* C27: when a well-formed expression (optionally preceded by `print`) is
\* followed by a token other than `;`, Parser::statement returns
\* ErrStmt("Expected ';' after a statement") in the print case and
\* ErrStmt("Expected ';' after an expression") otherwise; when the
\* expression itself fails to parse, the ErrStmt carries the parser's error
\* message for that failure.
C27_ErrStmtMessages ==
    FirstStatementReturned =>
        /\ MissesSemicolon(input) =>
               statements[1] =
                   [kind |-> "ErrStmt",
                    msg |-> IF input[1].type = "Print"
                            THEN <<"Expected ';' after a statement">>
                            ELSE <<"Expected ';' after an expression">>]
        /\ \A e \in {expression(StatementBody(input), NewParser)} :
               e.status = "err" =>
                   statements[1] = [kind |-> "ErrStmt", msg |-> e.msg]

\* `print 1 Eof`: the statement is ErrStmt("Expected ';' after a statement")
C27_PrintWithoutSemicolon ==
    /\ FirstStatementReturned
    /\ Len(input) = 3
    /\ input[1].type = "Print" /\ input[2].type = "Number"
    /\ input[3].type = "Eof"
    /\ statements[1].kind = "ErrStmt"
    /\ statements[1].msg = <<"Expected ';' after a statement">>


\* the first turn of parse has ended: one statement, and the queue, the
\* errors and panic_mode as that turn left them
FirstTurnEnded == pc = "parse" /\ input # << >> /\ Len(statements) = 1

\* a primary is due after p: p is empty or an operator that ends the
\* beginning of a well-formed expression
PrimaryDueAfter(p) ==
    \/ p = << >>
    \/ /\ p[Len(p)].type \in ContinuingKinds \cup {"Bang"}
       /\ ExpressionTrees(Append(p, Token("Nil", <<"nil">>, 0))) # {}

\* the positions k of a statement body where a group is left open: a `(`
\* where a primary is due, a well-formed expression up to k - 1, and at k a
\* token that is no `)` and does not carry the expression on
GroupLeftOpenAt(body) ==
    {k \in 3..Len(body) :
        /\ body[k].type \notin ContinuingKinds \cup {"RightParen"}
        /\ \E p \in 0..(k - 3) :
              /\ body[p + 1].type = "LeftParen"
              /\ PrimaryDueAfter(SubSeq(body, 1, p))
              /\ ExpressionTrees(SubSeq(body, p + 2, k - 1)) # {}}

\* C28: when a `(` and a well-formed inner expression have been consumed
\* and the next token is not `)`, the parse of the enclosing expression
\* fails (no Grouping node is produced), a diagnostic is recorded in the
\* parser's errors list, and the tokens already consumed by the failed
\* attempt are not put back on the queue: the queue begins at the token
\* that is no `)`.
C28_GroupLeftOpen ==
    FirstTurnEnded =>
        \A k \in GroupLeftOpenAt(StatementBody(input)) :
            /\ statements[1].kind = "ErrStmt"
            /\ errors # << >>
            /\ Len(tokens) = Len(StatementBody(input)) - k + 1
            /\ tokens = SubSeq(input, Len(input) - Len(tokens) + 1, Len(input))

\* `2 * ( 1 + 2 3 ; Eof` after the first turn: `3 ; Eof` is left
C28_ProductWithOpenGroup ==
    /\ FirstTurnEnded
    /\ Len(input) = 9
    /\ input[2].type = "Star" /\ input[3].type = "LeftParen"
    /\ input[5].type = "Plus" /\ input[7].type = "Number"
    /\ input[9].type = "Eof"
    /\ statements[1].kind = "ErrStmt"
    /\ Len(errors) = 2
    /\ tokens = SubSeq(input, 7, 9)


\* parse has been called on a token sequence that ends in Eof
ParsesUpToEof ==
    /\ entry \in {"lex", "parse"}
    /\ pc \in {"parse", "parsed", "panicked", "aborted"}
    /\ EndsInEof(input)

\* s is what is left of whole when tokens are removed from its front
SuffixOf(s, whole) ==
    /\ Len(s) <= Len(whole)
    /\ s = SubSeq(whole, Len(whole) - Len(s) + 1, Len(whole))

\* C29: while parse runs on a token sequence that ends in Eof, the pending
\* queue is at every step a non-empty suffix of the original sequence whose
\* last element is that Eof: tokens are only ever removed from the front,
\* the Eof token is never removed, and no lookahead (`tokens[0]`,
\* `tokens.get(0).expect(..)`) reads an empty queue, which would panic.
C29_QueueEndsInEof ==
    ParsesUpToEof =>
        /\ pc # "panicked"
        /\ tokens # << >>
        /\ SuffixOf(tokens, input)
        /\ tokens[Len(tokens)].type = "Eof"

\* `1 ; Eof` after two turns: the Eof token is all that is left
C29_OnlyEofLeft ==
    /\ ParsesUpToEof
    /\ Len(input) = 3 /\ input[1].type = "Number"
    /\ input[2].type = "Semicolon"
    /\ Len(statements) = 2
    /\ statements[1].kind = "ExprStmt"
    /\ tokens = <<input[3]>>


----------------------------------------------------------------------------
(* Claims about the operators of the trees the parser builds *)

\* the operators a tree has in the positions of the given kind of node
RECURSIVE OperatorsIn(_, _)
OperatorsIn(kind, t) ==
    CASE t.kind = "Literal" -> {}
      [] t.kind = "Grouping" -> OperatorsIn(kind, t.expr)
      [] t.kind = "UnaryExpr" ->
           (IF kind = "UnaryExpr" THEN {t.operator.op} ELSE {})
               \cup OperatorsIn(kind, t.right)
      [] t.kind = "BinaryExpr" ->
           (IF kind = "BinaryExpr" THEN {t.operator.op} ELSE {})
               \cup OperatorsIn(kind, t.left) \cup OperatorsIn(kind, t.right)

\* what an evaluation hands back when it reaches one of the unimplemented
\* or unsupported-operator branches
ReachesNoBranch(r) ==
    /\ r.status # "panic"
    /\ r.status = "err" =>
          /\ r.msg # <<"Unsupported operator">>
          /\ r.msg[1] # "Unexpected operator of type "

\* the tree of the statement parsed last: every statement is the last one
\* in the state its turn ends in
ParsedTrees ==
    {statements[k].expr :
        k \in {j \in {Len(statements)} :
                  /\ j >= 1
                  /\ statements[j].kind \in {"ExprStmt", "PrintStmt"}}}

\* the parser has panicked in `Operator::try_from(token).unwrap()`
UnwrapFailed ==
    /\ entry \in {"lex", "parse"} /\ pc = "panicked" /\ input # << >>
    /\ \E r \in {statement(tokens, [panic_mode |-> panic_mode,
                                      errors |-> errors])} :
          r.msg = <<"called Result::unwrap() on an Err value">>

\* C30: every expression tree built by the parser uses, in BinaryExpr
\* position, only the operators Add, Subtract, Multiply, Divide,
\* GreaterThan, LessThan, EqualEqual and NotEqual, and in UnaryExpr position
\* only Bang and Subtract; so Operator::try_from never fails inside the
\* parser and evaluating a parser-built tree never reaches the
\* unimplemented Equal/And/Or branches or the unsupported-operator branches
\* of the evaluator.
C30_OperatorsOfParsedTrees ==
    /\ ~UnwrapFailed
    /\ \A t \in ParsedTrees :
          /\ OperatorsIn("BinaryExpr", t) \subseteq
                 {"Add", "Subtract", "Multiply", "Divide", "GreaterThan",
                  "LessThan", "EqualEqual", "NotEqual"}
          /\ OperatorsIn("UnaryExpr", t) \subseteq {"Bang", "Subtract"}
          /\ ReachesNoBranch(visit_expr_node(t))

\* `! 1 != - 2 * 3 ;` has been parsed: NotEqual over Bang and a product
\* with Subtract in it, and the value is true
C30_UnaryAndProductCompared ==
    \E t \in ParsedTrees :
        /\ t.kind = "BinaryExpr"
        /\ t.operator.op = "NotEqual"
        /\ t.left.kind = "UnaryExpr" /\ t.left.operator.op = "Bang"
        /\ t.right.kind = "BinaryExpr" /\ t.right.operator.op = "Multiply"
        /\ t.right.left.kind = "UnaryExpr"
        /\ t.right.left.operator.op = "Subtract"
        /\ visit_expr_node(t) = Value(Boolean(TRUE))

====
